---- MODULE Spec2Model ----
(***************************************************************************)
(* Verification model of liclac/cardinal: the APDU command layer           *)
(* (Transport::call_apdu, Card::exec, util::call_apdu), the READ RECORD    *)
(* iterators, the ISO 7816 status word classification and the BER-TLV      *)
(* codec.  Bytes are integers 0..255; byte strings are sequences.          *)
(***************************************************************************)
EXTENDS Integers, Sequences, FiniteSets, TLC

VARIABLES
    \* ---- command layer: one logical call and its transport exchanges
    layer,      \* which command layer runs the call
    proto,      \* wire protocol of pcsc::Card (protocol.rs Protocol)
    grCla,      \* class byte iso7816::GetResponse::new(le) puts in its APDU
    pc,         \* "idle" | "calling" | "done"
    orig,       \* the request the caller handed in
    req,        \* the request of the current recursion level
    prev,       \* the exchange before the last one
    last,       \* the last transport exchange
    chain,      \* data of every response this logical call received, in order,
                \* since the command was last (re-)issued (kept while calls < MaxCalls)
    calls,      \* transport calls made by this logical call (saturates at MaxCalls)
    result,     \* what the logical call returned to its caller
    \* ---- record iterators
    itKind,     \* which iterator type
    itSfi,      \* SFI of the directory EF (-1: Directory::sfi() is None)
    itNum,      \* the iterator's u8 record counter
    itTerminate,\* RecordIterator.terminate
    itItem,     \* what the last next() returned
    itReads,    \* READ RECORD commands the transport has seen (saturating)
    itOks,      \* Ok items yielded so far (saturating)
    itNotFound, \* a READ RECORD of this iterator was answered 6A 83
    itFailed,   \* a READ RECORD of this iterator failed with another error
    itLastRead, \* record number of the last READ RECORD sent (0: none)
    itCalled,   \* the last next() called the transport
    \* ---- status word round trip
    stY,        \* the u16 input
    stStatus,   \* Status::from_u16(stY)
    stOut,      \* Status::as_u16 of stStatus
    stPc,
    \* ---- BER-TLV codec
    berTag, berVal,  \* the (tag, value) handed to TV
    berCap,          \* length of the buffer TV is written into
    berEndian,       \* byte order of the build target (scroll's default context)
    berBuf,          \* bytes TV::try_into_ctx wrote (buf[..offset])
    berIn,           \* input handed to take_len / parse_next
    berRes,          \* result of the parser applied last
    berPc,
    berItems,        \* items (Some) the iterator has yielded, saturating at MaxCount
    \* ---- ATR parser
    atrIn,      \* the ATR bytes handed to atr::parse
    atrRes,     \* what atr::parse returned
    atrPc,
    \* ---- serialization of commands
    enVia,      \* which command type and encoder serialize the command
    enCmd,      \* the command
    enProto,    \* the wire protocol, where the encoder is Protocol::write_req
    enWire,     \* the bytes written
    enPc,       \* "built" | "written" | "failed"
    \* ---- probe of the cardinal binary
    pbForce,    \* args.force_standard ("None" or a Standard)
    pbPc,       \* the step probe is at
    pbCid,      \* cid: [some, bytes]
    pbAtr,      \* what probe_atr got from atr::parse
    pbStd,      \* the standard the match of probe decided on ("none": not reached)
    pbRan,      \* the flows probe has called (subset of {"felica", "emv"})
    pbFails,    \* the first three steps that failed (subset of {"reader", "cid", "atr"})
    pbRet,      \* how probe ended: "none" | "ok" | "err" | "panic"
    \* ---- FeliCa flow of the probe
    feIdm,      \* the IDm commands are addressed to
    feDone,     \* what probe_felica has issued or run so far
    fePmmFailed,\* the PMm query failed
    feIdx,      \* ReadWithoutEncryption calls made by the Lite-S fallback
    feFailed,   \* of these, the reads the card did not deliver a block for
    feAbsent,   \* placeholder lines the Lite-S fallback printed
    feRet,      \* how probe_felica ended: "none" | "ok" | "err" | "panic"
    \* ---- FeliCa helpers and the block dump of an unauthenticated service
    fcPc,       \* "idle" | "ready" | "idm" | "ble" | "dump" | "stopped"
    fcIn,       \* the arguments of the last helper call
    fcOut,      \* what it returned
    bdNum,      \* block_num of the next read of the block-dump loop
    bdReads,    \* reads the loop has issued (saturates at MaxCount)
    bdNonZero,  \* the card has answered a read with a status that is not (0, 0)
    bdRet,      \* how the loop ended: "none" | "break" | "err" | "panic"
    \* ---- the EMV directory: the FCI Proprietary Template and the record reads
    dirVia,     \* the draft that parses: "emv" | "app_emv_dir"
    dirKids,    \* the children the template's contents were serialized from
    dirIn,      \* the template's contents as the card sent them
    dirPc,      \* "idle" | "input" | "parsed" | "terminated" | "done"
    dirRes,     \* what the parse returned
    dirNum,     \* number of the next record to read
    dirReads,   \* READ RECORD commands issued for the directory EF
    dirReadSfi, \* the SFI of the last of them, None before the first
    dirRet      \* how reading ended: "none" | "ok" | "err" | "ErrNoSFI" | "panic"

cmdVars == <<layer, proto, grCla, pc, orig, req, prev, last, chain, calls, result>>
iterVars == <<itKind, itSfi, itNum, itTerminate, itItem, itReads, itOks,
              itNotFound, itFailed, itLastRead, itCalled>>
statusVars == <<stY, stStatus, stOut, stPc>>
berVars == <<berTag, berVal, berCap, berEndian, berBuf, berIn, berRes, berPc, berItems>>
atrVars == <<atrIn, atrRes, atrPc>>
encVars == <<enVia, enCmd, enProto, enWire, enPc>>
pbVars == <<pbForce, pbPc, pbCid, pbAtr, pbStd, pbRan, pbFails, pbRet>>
feVars == <<feIdm, feDone, fePmmFailed, feIdx, feFailed, feAbsent, feRet>>
fcVars == <<fcPc, fcIn, fcOut, bdNum, bdReads, bdNonZero, bdRet>>
dirVars == <<dirVia, dirKids, dirIn, dirPc, dirRes, dirNum, dirReads, dirReadSfi, dirRet>>
moreVars == <<fcVars, dirVars>>
otherVars == <<cmdVars, iterVars, statusVars, berVars, atrVars, encVars, moreVars>>
vars == <<otherVars, pbVars, feVars>>

-----------------------------------------------------------------------------
(* Bounds of the model. *)

\* transport calls counted exactly per logical call; the counter saturates here
MaxCalls == 4
\* READ RECORD / Ok-item counters saturate here
MaxCount == 8

\* longest run of interface bytes after T0 in a generated ATR
MaxAtrTail == 4

\* largest SFI a READ RECORD is built with (an SFI has five bits: 0..31)
MaxSfi == 33

-----------------------------------------------------------------------------
(* Byte helpers. *)

Byte == 0..255

Fill(n, b) == [i \in 1..n |-> b]

Min(a, b) == IF a < b THEN a ELSE b

\* F applied to the value of v, v being evaluated once (a `let` of the source)
Bind(v, F(_)) == CHOOSE y \in {F(x) : x \in {v}} : TRUE

-----------------------------------------------------------------------------
(* Status word classification, old/src/apdu.rs.  A Status is a record       *)
(* [v, a, b]: the variant and its (up to two) u8 fields.                    *)

St(v, a, b) == [v |-> v, a |-> a, b |-> b]

\* a classification that keeps the whole SW2 in Status::Counter
CounterField_keeps_sw2(x) == x

\* Status::Counter's field as Status::from computes it: the low nibble
CounterField(x) == x - \hC0

Status_from(x, y) ==
    CASE x = \h90 /\ y = \h00 -> St("OK", 0, 0)
      [] x = \h61 -> St("BytesRemaining", y, 0)
      [] x = \h62 /\ y = \h00 -> St("Warning", x, 0)
      [] x = \h62 /\ y \in \h02..\h80 -> St("CardQuery", y, 0)
      [] x = \h62 /\ y = \h81 -> St("ReturnDataMayBeCorrupted", 0, 0)
      [] x = \h62 /\ y = \h82 -> St("EOF", 0, 0)
      [] x = \h62 /\ y = \h83 -> St("SelectedFileDeactivated", 0, 0)
      [] x = \h62 /\ y = \h84 -> St("BadFileOrDataControlInformation", 0, 0)
      [] x = \h62 /\ y = \h85 -> St("SelectedFileInTerminationState", 0, 0)
      [] x = \h62 /\ y = \h86 -> St("NoSensorInput", 0, 0)
      [] x = \h62 /\ y = \h87 -> St("DeactivatedReference", 0, 0)
      [] x = \h63 /\ y = \h00 -> St("Warning", x, 0)
      [] x = \h63 /\ y = \h40 -> St("UnsuccessfulComparison", 0, 0)
      [] x = \h63 /\ y = \h81 -> St("FullByLastWrite", 0, 0)
      [] x = \h63 /\ y \in \hC0..\hCF -> St("Counter", CounterField(y), 0)
      [] x = \h64 /\ y = \h00 -> St("Warning", x, 0)
      [] x = \h64 /\ y = \h01 -> St("ErrImmediateResponseRequired", 0, 0)
      [] x = \h64 /\ y \in \h02..\h80 -> St("ErrCardQuery", y, 0)
      [] x = \h64 /\ y = \h81 -> St("ErrChannelShareAccessDenied", 0, 0)
      [] x = \h64 /\ y = \h82 -> St("ErrChannelOpenAccessDenied", 0, 0)
      [] x = \h65 /\ y = \h00 -> St("ErrError", x, 0)
      [] x = \h65 /\ y = \h81 -> St("ErrMemoryFailure", 0, 0)
      [] x = \h67 /\ y = \h00 -> St("ErrError", x, 0)
      [] x = \h67 /\ y = \h01 -> St("ErrMalformedAPDU", 0, 0)
      [] x = \h67 /\ y = \h02 -> St("ErrInvalidLc", 0, 0)
      [] x = \h68 /\ y = \h00 -> St("ErrError", x, 0)
      [] x = \h68 /\ y = \h81 -> St("ErrChannelUnsupported", 0, 0)
      [] x = \h68 /\ y = \h82 -> St("ErrSecureMessagingUnsupported", 0, 0)
      [] x = \h68 /\ y = \h83 -> St("ErrChainLastCommandExpected", 0, 0)
      [] x = \h68 /\ y = \h84 -> St("ErrChainUnsupported", 0, 0)
      [] x = \h69 /\ y = \h00 -> St("ErrError", x, 0)
      [] x = \h69 /\ y = \h81 -> St("ErrIncompatibleFileStructure", 0, 0)
      [] x = \h69 /\ y = \h82 -> St("ErrSecurityStatus", 0, 0)
      [] x = \h69 /\ y = \h83 -> St("ErrAuthMethodBlocked", 0, 0)
      [] x = \h69 /\ y = \h84 -> St("ErrRefDataUnusable", 0, 0)
      [] x = \h69 /\ y = \h85 -> St("ErrConditionsNotSatisfied", 0, 0)
      [] x = \h69 /\ y = \h86 -> St("ErrNoCurrentEF", 0, 0)
      [] x = \h69 /\ y = \h87 -> St("ErrExpectedSecureMessagingDOs", 0, 0)
      [] x = \h69 /\ y = \h88 -> St("ErrIncorrectSecureMessagingDOs", 0, 0)
      [] x = \h6A /\ y = \h00 -> St("ErrError", x, 0)
      [] x = \h6A /\ y = \h80 -> St("ErrCommandData", 0, 0)
      [] x = \h6A /\ y = \h81 -> St("ErrFunctionNotSupported", 0, 0)
      [] x = \h6A /\ y = \h82 -> St("ErrFileOrApplicationNotFound", 0, 0)
      [] x = \h6A /\ y = \h83 -> St("ErrRecordNotFound", 0, 0)
      [] x = \h6A /\ y = \h84 -> St("ErrNotEnoughSpace", 0, 0)
      [] x = \h6A /\ y = \h85 -> St("ErrNcTLVStructure", 0, 0)
      [] x = \h6A /\ y = \h86 -> St("ErrP1P2", x, y)
      [] x = \h6A /\ y = \h87 -> St("ErrNcP1P2", 0, 0)
      [] x = \h6A /\ y = \h88 -> St("ErrRefNotFound", 0, 0)
      [] x = \h6A /\ y = \h89 -> St("ErrFileAlreadyExists", 0, 0)
      [] x = \h6A /\ y = \h8A -> St("ErrDFAlreadyExists", 0, 0)
      [] x = \h6B /\ y = \h00 -> St("ErrP1P2", x, y)
      [] x = \h6C -> St("ErrRetryWithLe", y, 0)
      [] x = \h6D /\ y = \h00 -> St("ErrInstruction", 0, 0)
      [] x = \h6E /\ y = \h00 -> St("ErrClass", 0, 0)
      [] x = \h6F /\ y = \h00 -> St("ErrNoIdea", 0, 0)
      [] OTHER -> St("Unknown", x, y)

\* Status::from_u16: xy.to_be_bytes() then Status::from
Status_from_u16(xy) == Status_from(xy \div 256, xy % 256)

Status_as_tuple(s) ==
    CASE s.v = "OK" -> <<\h90, \h00>>
      [] s.v = "Warning" -> <<s.a, \h00>>
      [] s.v = "BytesRemaining" -> <<\h61, s.a>>
      [] s.v = "CardQuery" -> <<\h62, s.a>>
      [] s.v = "ReturnDataMayBeCorrupted" -> <<\h62, \h81>>
      [] s.v = "EOF" -> <<\h62, \h82>>
      [] s.v = "SelectedFileDeactivated" -> <<\h62, \h83>>
      [] s.v = "BadFileOrDataControlInformation" -> <<\h62, \h84>>
      [] s.v = "SelectedFileInTerminationState" -> <<\h62, \h85>>
      [] s.v = "NoSensorInput" -> <<\h62, \h86>>
      [] s.v = "DeactivatedReference" -> <<\h62, \h87>>
      [] s.v = "UnsuccessfulComparison" -> <<\h63, \h40>>
      [] s.v = "FullByLastWrite" -> <<\h63, \h81>>
      [] s.v = "Counter" -> <<\h63, (\hC0 + s.a) % 256>>
      [] s.v = "ErrError" -> <<s.a, \h00>>
      [] s.v = "ErrImmediateResponseRequired" -> <<\h64, \h01>>
      [] s.v = "ErrCardQuery" -> <<\h64, s.a>>
      [] s.v = "ErrChannelShareAccessDenied" -> <<\h64, \h81>>
      [] s.v = "ErrChannelOpenAccessDenied" -> <<\h64, \h82>>
      [] s.v = "ErrMemoryFailure" -> <<\h65, \h81>>
      [] s.v = "ErrSecurity" -> <<\h66, s.a>>
      [] s.v = "ErrMalformedAPDU" -> <<\h67, \h01>>
      [] s.v = "ErrInvalidLc" -> <<\h67, \h02>>
      [] s.v = "ErrChannelUnsupported" -> <<\h68, \h81>>
      [] s.v = "ErrSecureMessagingUnsupported" -> <<\h68, \h82>>
      [] s.v = "ErrChainLastCommandExpected" -> <<\h68, \h83>>
      [] s.v = "ErrChainUnsupported" -> <<\h68, \h84>>
      [] s.v = "ErrIncompatibleFileStructure" -> <<\h69, \h81>>
      [] s.v = "ErrSecurityStatus" -> <<\h69, \h82>>
      [] s.v = "ErrAuthMethodBlocked" -> <<\h69, \h83>>
      [] s.v = "ErrRefDataUnusable" -> <<\h69, \h84>>
      [] s.v = "ErrConditionsNotSatisfied" -> <<\h69, \h85>>
      [] s.v = "ErrNoCurrentEF" -> <<\h69, \h86>>
      [] s.v = "ErrExpectedSecureMessagingDOs" -> <<\h69, \h87>>
      [] s.v = "ErrIncorrectSecureMessagingDOs" -> <<\h69, \h88>>
      [] s.v = "ErrCommandData" -> <<\h6A, \h80>>
      [] s.v = "ErrFunctionNotSupported" -> <<\h6A, \h81>>
      [] s.v = "ErrFileOrApplicationNotFound" -> <<\h6A, \h82>>
      [] s.v = "ErrRecordNotFound" -> <<\h6A, \h83>>
      [] s.v = "ErrNotEnoughSpace" -> <<\h6A, \h84>>
      [] s.v = "ErrNcTLVStructure" -> <<\h6A, \h85>>
      [] s.v = "ErrP1P2" -> <<s.a, s.b>>
      [] s.v = "ErrNcP1P2" -> <<\h6A, \h87>>
      [] s.v = "ErrRefNotFound" -> <<\h6A, \h88>>
      [] s.v = "ErrFileAlreadyExists" -> <<\h6A, \h89>>
      [] s.v = "ErrDFAlreadyExists" -> <<\h6A, \h8A>>
      [] s.v = "ErrParamsP1P2" -> <<\h6B, \h00>>
      [] s.v = "ErrRetryWithLe" -> <<\h6C, s.a>>
      [] s.v = "ErrInstruction" -> <<\h6D, \h00>>
      [] s.v = "ErrClass" -> <<\h6E, \h00>>
      [] s.v = "ErrNoIdea" -> <<\h6F, \h00>>
      [] OTHER -> <<s.a, s.b>>

\* Status::as_u16: u16::from_be_bytes of as_tuple
Status_as_u16(s) == Status_as_tuple(s)[1] * 256 + Status_as_tuple(s)[2]

NoStatus == St("none", 0, 0)

-----------------------------------------------------------------------------
(* Status word classification of the Card trait draft, lib.rs 119-143.      *)

lib_Status_from(sw1, sw2) ==
    CASE sw1 = \h90 /\ sw2 = \h00 -> St("OK", 0, 0)
      [] sw1 = \h61 -> St("GetResponse", sw2, 0)
      [] sw1 = \h6C -> St("RetryWithLe", sw2, 0)
      [] sw1 = \h63 /\ sw2 < \hC0 -> St("Unknown", \h63, sw2)
      [] sw1 = \h63 /\ sw2 >= \hC0 -> St("Counter", sw2, 0)
      [] sw1 = \h69 /\ sw2 = \h83 -> St("AuthMethodBlocked", 0, 0)
      [] sw1 = \h69 /\ sw2 = \h84 -> St("DataInvalidated", 0, 0)
      [] sw1 = \h69 /\ sw2 = \h85 -> St("ConditionsOfUse", 0, 0)
      [] sw1 = \h6A /\ sw2 = \h81 -> St("FunctionNotSupported", 0, 0)
      [] sw1 = \h6A /\ sw2 = \h82 -> St("FileNotFound", 0, 0)
      [] sw1 = \h6A /\ sw2 = \h83 -> St("RecordNotFound", 0, 0)
      [] sw1 = \h6A /\ sw2 = \h86 -> St("WrongP1P2", 0, 0)
      [] sw1 = \h6A /\ sw2 = \h88 -> St("DataNotFound", 0, 0)
      [] OTHER -> St("Unknown", sw1, sw2)

-----------------------------------------------------------------------------
(* Requests.  le = -1 stands for Option::None (core/apdu.rs Request.le);    *)
(* lib.rs APDU.le is a plain u8.                                            *)

None == -1

Rq(cla, ins, p1, p2, data, le) ==
    [cla |-> cla, ins |-> ins, p1 |-> p1, p2 |-> p2, data |-> data, le |-> le]

NoReq == Rq(0, 0, 0, 0, <<>>, None)

\* core/apdu.rs Request::new
Request_new(cla, ins, p1, p2, data) == Rq(cla, ins, p1, p2, data, None)

\* a retry that forgets the new Le
Request_expect_keeps_le(r, le) == r

\* core/apdu.rs Request::expect
Request_expect(r, le) == [r EXCEPT !.le = le]

\* lib.rs APDU::new
APDU_new(cla, ins, p1, p2, data) == Rq(cla, ins, p1, p2, data, 0)

\* lib.rs APDU::expect
APDU_expect(r, le) == [r EXCEPT !.le = le]

\* card/get_response.rs GetResponse::new(cla, le) through cmd.rs Request::to_apdu:
\* default P1 = P2 = 0 and no data, INS 0xC0, le = Some(le)
GetResponse_to_apdu(cla, le) ==
    [Request_new(cla, \hC0, \h00, \h00, <<>>) EXCEPT !.le = le]

\* lib.rs 163: iso7816::GetResponse::new(xx).into() is handed the length only, so
\* the class byte of the APDU it builds cannot depend on the request being answered
iso7816_GetResponse(xx) == [APDU_new(grCla, \hC0, \h00, \h00, <<>>) EXCEPT !.le = xx]

-----------------------------------------------------------------------------
(* Wire encodings.  An encoder returns [ok, bytes].                         *)

Enc(ok, bytes) == [ok |-> ok, bytes |-> bytes]

\* transport/protocol/apdu.rs APDU::serialize_req
APDU_serialize_req(r) ==
    LET n == Len(r.data)
        hdr == <<r.cla, r.ins, r.p1, r.p2>>
        lec == (IF r.le = None THEN 255 ELSE r.le) % 256
    IN  IF n = 0 THEN Enc(TRUE, hdr \o <<lec>>)
        ELSE IF n <= 255 THEN Enc(TRUE, hdr \o <<n>> \o r.data \o <<lec>>)
        ELSE IF n = 256 THEN Enc(TRUE, hdr \o <<0>> \o r.data \o <<lec>>)
        ELSE Enc(FALSE, <<>>)

\* an encoder that writes Le whatever the protocol
Protocol_write_req_le_always(p, r) ==
    LET n == Len(r.data)
        hdr == <<r.cla, r.ins, r.p1, r.p2>>
        body == IF n > 0 THEN <<n>> \o r.data ELSE <<>>
    IN  IF n > 255 THEN Enc(FALSE, hdr) ELSE Enc(TRUE, hdr \o body \o <<r.le>>)

\* protocol.rs Protocol::write_req
Protocol_write_req(p, r) ==
    LET n == Len(r.data)
        hdr == <<r.cla, r.ins, r.p1, r.p2>>
        body == IF n > 0 THEN <<n>> \o r.data ELSE <<>>
        le == IF p = "T1" \/ n = 0 THEN <<r.le>> ELSE <<>>
    IN  IF n > 255 THEN Enc(FALSE, hdr) ELSE Enc(TRUE, hdr \o body \o le)

\* the apdu crate's Command::write for a command built by new_with_le, as
\* iso7816.rs test_apdu_read_record pins it: header then the Le byte
Command_write(r) == <<r.cla, r.ins, r.p1, r.p2, r.le % 256>>

\* A decoded response: [ok, data, sw1, sw2]
Rsp(ok, data, sw1, sw2) == [ok |-> ok, data |-> data, sw1 |-> sw1, sw2 |-> sw2]

\* transport/protocol/apdu.rs APDU::deserialize_res
APDU_deserialize_res(d) ==
    IF Len(d) < 2 THEN Rsp(FALSE, <<>>, 0, 0)
    ELSE Rsp(TRUE, SubSeq(d, 1, Len(d) - 2), d[Len(d) - 1], d[Len(d)])

\* protocol.rs Protocol::decode_res: split_last twice
Protocol_decode_res(d) ==
    IF Len(d) = 0 THEN Rsp(FALSE, <<>>, 0, 0)
    ELSE IF Len(d) = 1 THEN Rsp(FALSE, <<>>, 0, 0)
    ELSE Rsp(TRUE, SubSeq(d, 1, Len(d) - 2), d[Len(d) - 1], d[Len(d)])

\* The Le byte a short-form request carries on the wire (CLA INS P1 P2 [Lc body] [Le]),
\* None when the encoding ends with the body
WireLe(w) ==
    IF Len(w) = 5 THEN w[5]
    ELSE IF Len(w) > 5 /\ Len(w) = 5 + w[5] + 1 THEN w[Len(w)]
    ELSE None

-----------------------------------------------------------------------------
(* The card and the reader: what one transmit can come back with.           *)

D64 == Fill(64, \hA1)
D32 == Fill(32, \hB2)

\* [err |-> TRUE]: transmit itself failed (pcsc::Error); else the bytes received:
\* a body and a status word, or, from a misbehaving reader, less than a status word
CardAnswers ==
    {[err |-> TRUE, bytes |-> <<>>]}
      \cup {[err |-> FALSE, bytes |-> b] :
              b \in {<<>>, <<\h90>>,
                     <<\h90, \h00>>, D32 \o <<\h90, \h00>>,
                     <<\h61, \h20>>, D64 \o <<\h61, \h20>>,
                     <<\h6C, \h80>>, D32 \o <<\h6C, \h80>>,
                     <<\h6A, \h83>>, <<\h69, \h85>>}}

Layers == {"Transport", "Card", "util"}
CommandLayers == {"Transport", "Card"}
Protocols == {"T0", "T1"}
Clas == {\h00, \h80}
Bodies == {<<>>, <<\hA0, \h00>>}

\* the requests a caller hands to each layer
Requests(l) ==
    CASE l = "Transport" -> {Request_new(c, \hA4, \h04, \h00, b) : c \in Clas, b \in Bodies}
      [] l = "Card" -> {APDU_new(c, \hA4, \h04, \h00, b) : c \in Clas, b \in Bodies}
      [] OTHER -> {Rq(c, \hB2, \h01, \h0C, <<>>, 0) : c \in Clas}

-----------------------------------------------------------------------------
(* Exchanges and results.                                                   *)

\* rx is what transmit came back with (an element of CardAnswers)
Exch(n, r, w, rsp, rx) ==
    [n |-> n, req |-> r, wire |-> w, ok |-> rsp.ok, data |-> rsp.data,
     sw1 |-> rsp.sw1, sw2 |-> rsp.sw2, rx |-> rx]

NoExchange ==
    Exch(0, NoReq, <<>>, Rsp(FALSE, <<>>, 0, 0), [err |-> FALSE, bytes |-> <<>>])

Res(kind, err, data, status) ==
    [kind |-> kind, err |-> err, data |-> data, status |-> status]

NoResult == Res("none", "", <<>>, NoStatus)

\* bookkeeping shared by the three layers: one more transport exchange happened
Exchanged(w, rsp, rx) ==
    /\ prev' = last
    /\ last' = Exch(Min(calls + 1, MaxCalls), req, w, rsp, rx)
    /\ calls' = Min(calls + 1, MaxCalls)
    /\ chain' = IF calls + 1 >= MaxCalls \/ (rsp.ok /\ rsp.sw1 = \h6C) THEN <<>>
                ELSE IF rsp.ok THEN chain \o rsp.data ELSE chain

Return(r) == pc' = "done" /\ result' = r /\ req' = req

Recurse(r) == pc' = "calling" /\ result' = result /\ req' = r

-----------------------------------------------------------------------------
(* The command layers.                                                      *)

\* the caller starts a logical call
Begin ==
    /\ pc \in {"idle", "done"}
    /\ \E r \in Requests(layer) :
         /\ orig' = r
         /\ req' = r
    /\ pc' = "calling"
    /\ prev' = NoExchange
    /\ last' = NoExchange
    /\ chain' = <<>>
    /\ calls' = 0
    /\ result' = NoResult
    /\ UNCHANGED <<layer, proto, grCla, iterVars, statusVars, berVars, atrVars, encVars, pbVars, feVars, moreVars>>

\* transport.rs 15-31, one level of Transport::call_apdu over PCSC::call_raw_apdu
\* (transport/pcsc.rs 27-60)
Transport_call_apdu ==
    /\ pc = "calling" /\ layer = "Transport"
    /\ LET enc == APDU_serialize_req(req)
       IN  IF ~enc.ok
           THEN /\ Return(Res("err", "framing", <<>>, NoStatus))
                /\ UNCHANGED <<prev, last, chain, calls>>
           ELSE \E ans \in CardAnswers :
             LET rsp == IF ans.err THEN Rsp(FALSE, <<>>, 0, 0)
                        ELSE APDU_deserialize_res(ans.bytes)
                 st == Status_from(rsp.sw1, rsp.sw2)
             IN  /\ Exchanged(enc.bytes, rsp, ans)
                 /\ IF ans.err THEN Return(Res("err", "transport", <<>>, NoStatus))
                    ELSE IF ~rsp.ok THEN Return(Res("err", "framing", <<>>, NoStatus))
                    ELSE IF st.v = "OK" THEN Return(Res("ok", "", rsp.data, st))
                    ELSE IF st.v = "BytesRemaining"
                         THEN Recurse(GetResponse_to_apdu(req.cla, st.a))
                    ELSE IF st.v = "ErrRetryWithLe"
                         THEN Recurse(Request_expect(req, st.a))
                    ELSE Return(Res("err", "StatusError", <<>>, st))
    /\ UNCHANGED <<layer, proto, grCla, orig, iterVars, statusVars, berVars, atrVars, encVars, pbVars, feVars, moreVars>>

\* lib.rs 159-167, one level of Card::exec over pcsc::Card::exec_impl (pcsc.rs 53-64)
Card_exec ==
    /\ pc = "calling" /\ layer = "Card"
    /\ LET enc == Protocol_write_req(proto, req)
       IN  IF ~enc.ok
           THEN /\ Return(Res("err", "APDUBodyTooLong", <<>>, NoStatus))
                /\ UNCHANGED <<prev, last, chain, calls>>
           ELSE \E ans \in CardAnswers :
             LET rsp == IF ans.err THEN Rsp(FALSE, <<>>, 0, 0)
                        ELSE Protocol_decode_res(ans.bytes)
                 sw == lib_Status_from(rsp.sw1, rsp.sw2)
             IN  /\ Exchanged(enc.bytes, rsp, ans)
                 /\ IF ans.err THEN Return(Res("err", "transport", <<>>, NoStatus))
                    ELSE IF ~rsp.ok THEN Return(Res("err", "framing", <<>>, NoStatus))
                    ELSE IF sw.v = "OK" THEN Return(Res("ok", "", rsp.data, sw))
                    ELSE IF sw.v = "GetResponse" THEN Recurse(iso7816_GetResponse(sw.a))
                    ELSE IF sw.v = "RetryWithLe" THEN Recurse(APDU_expect(req, sw.a))
                    ELSE Return(Res("err", "APDU", <<>>, sw))
    /\ UNCHANGED <<layer, proto, grCla, orig, iterVars, statusVars, berVars, atrVars, encVars, pbVars, feVars, moreVars>>

\* util.rs 22-45, util::call_apdu: one transmit, then the status word as it came.
\* rsp[l - 2] with l < 2 is an arithmetic overflow or an out-of-bounds index: a panic
util_call_apdu ==
    /\ pc = "calling" /\ layer = "util"
    /\ \E ans \in CardAnswers :
         LET l == Len(ans.bytes)
             rsp == IF ans.err \/ l < 2 THEN Rsp(FALSE, <<>>, 0, 0)
                    ELSE Rsp(TRUE, SubSeq(ans.bytes, 1, l - 2), ans.bytes[l - 1], ans.bytes[l])
         IN  /\ Exchanged(Command_write(req), rsp, ans)
             /\ IF ans.err THEN Return(Res("err", "transport", <<>>, NoStatus))
                ELSE IF l < 2 THEN Return(Res("panic", "", <<>>, NoStatus))
                ELSE IF <<rsp.sw1, rsp.sw2>> # <<\h90, \h00>>
                     THEN Return(Res("err", "APDU", <<>>, St("APDU", rsp.sw1, rsp.sw2)))
                ELSE Return(Res("ok", "", rsp.data, St("OK", 0, 0)))
    /\ UNCHANGED <<layer, proto, grCla, orig, iterVars, statusVars, berVars, atrVars, encVars, pbVars, feVars, moreVars>>

-----------------------------------------------------------------------------
(* The READ RECORD iterators: app/emv/dir.rs RecordIterator,                *)
(* app/emv/directory.rs DirectoryRecordIterator (the same code over another *)
(* Directory type) and iso7816/read_record.rs RecordIter.                   *)

U8Max == 255

IterKinds == {"RecordIterator", "DirectoryRecordIterator", "RecordIter"}

\* how one READ RECORD can end: a record, 6A 83, another status error, or the
\* transport failing
ReadOutcomes == {"Ok", "RecordNotFound", "StatusError", "TransportError"}

\* self.num += 1 on a u8: at 255 the addition overflows, which panics in a build
\* with overflow checks and wraps to 0 in one without
NumIncrement(n) ==
    IF n < U8Max THEN {[panic |-> FALSE, num |-> n + 1]}
    ELSE {[panic |-> TRUE, num |-> n], [panic |-> FALSE, num |-> 0]}

\* the item next() hands back for a read outcome that is not RecordNotFound
ItemOf(o) == IF o = "Ok" THEN "Ok" ELSE "Err" \o o

\* bookkeeping of one next(): whether it sent a READ RECORD and how that ended
Read(called, o) ==
    /\ itCalled' = called
    /\ itReads' = IF called THEN Min(itReads + 1, MaxCount) ELSE itReads
    /\ itLastRead' = IF called THEN itNum ELSE itLastRead
    /\ itNotFound' = (itNotFound \/ (called /\ o = "RecordNotFound"))
    /\ itFailed' = (itFailed \/ (called /\ o \in {"StatusError", "TransportError"}))

\* dir.rs 152-170 and directory.rs 151-169
TerminatingNext ==
    IF itTerminate
    THEN /\ itItem' = "None"
         /\ Read(FALSE, "")
         /\ UNCHANGED <<itNum, itTerminate, itOks>>
    ELSE IF itSfi = None
    THEN \* record_num: "Directory has no SFI", before any command is sent
         \E inc \in NumIncrement(itNum) :
            /\ itTerminate' = TRUE
            /\ itNum' = inc.num
            /\ itItem' = IF inc.panic THEN "panic" ELSE "ErrNoSFI"
            /\ Read(FALSE, "")
            /\ UNCHANGED itOks
    ELSE \E o \in ReadOutcomes, inc \in NumIncrement(itNum) :
            /\ itTerminate' = (o \in {"StatusError", "TransportError"})
            /\ itNum' = inc.num
            /\ itItem' = IF inc.panic THEN "panic"
                         ELSE IF o = "RecordNotFound" THEN "None"
                         ELSE ItemOf(o)
            /\ itOks' = IF o = "Ok" /\ ~inc.panic THEN Min(itOks + 1, MaxCount) ELSE itOks
            /\ Read(TRUE, o)

\* app/emv/dir.rs RecordIterator::next
RecordIterator_next ==
    /\ itKind = "RecordIterator" /\ itItem # "panic"
    /\ TerminatingNext
    /\ UNCHANGED <<itKind, itSfi, cmdVars, statusVars, berVars, atrVars, encVars, pbVars, feVars, moreVars>>

\* app/emv/directory.rs DirectoryRecordIterator::next
DirectoryRecordIterator_next ==
    /\ itKind = "DirectoryRecordIterator" /\ itItem # "panic"
    /\ TerminatingNext
    /\ UNCHANGED <<itKind, itSfi, cmdVars, statusVars, berVars, atrVars, encVars, pbVars, feVars, moreVars>>

\* iso7816/read_record.rs RecordIter::next
RecordIter_next ==
    /\ itKind = "RecordIter" /\ itItem # "panic"
    /\ \E o \in ReadOutcomes, inc \in NumIncrement(itNum) :
            /\ itNum' = inc.num
            /\ itItem' = IF inc.panic THEN "panic"
                         ELSE IF o = "RecordNotFound" THEN "None"
                         ELSE ItemOf(o)
            /\ itOks' = IF o = "Ok" /\ ~inc.panic THEN Min(itOks + 1, MaxCount) ELSE itOks
            /\ Read(TRUE, o)
    /\ UNCHANGED <<itKind, itSfi, itTerminate, cmdVars, statusVars, berVars, atrVars, encVars, pbVars, feVars, moreVars>>

-----------------------------------------------------------------------------
(* The status word round trip of old/src/apdu.rs test_round_trip: a u16 is  *)
(* classified, then the Status is encoded back.                             *)

U16Max == 65535

\* Status::from_u16(i)
from_u16 ==
    /\ stPc = "input"
    /\ stStatus' = Status_from_u16(stY)
    /\ stPc' = "classified"
    /\ UNCHANGED <<stY, stOut, cmdVars, iterVars, berVars, atrVars, encVars, pbVars, feVars, moreVars>>

\* .as_u16()
as_u16 ==
    /\ stPc = "classified"
    /\ stOut' = Status_as_u16(stStatus)
    /\ stPc' = "done"
    /\ UNCHANGED <<stY, stStatus, cmdVars, iterVars, berVars, atrVars, encVars, pbVars, feVars, moreVars>>

-----------------------------------------------------------------------------
(* The BER-TLV codec, ber.rs.  A parser returns                             *)
(*   [kind |-> "ok", rest, out], [kind |-> "err", code, input]              *)
(* (nom::Err::Error(Error::new(input, code))) or [kind |-> "panic"].        *)

POk(rest, out) == [kind |-> "ok", rest |-> rest, out |-> out]
PErr(code, input) == [kind |-> "err", code |-> code, input |-> input]
PPanic == [kind |-> "panic"]
NoParse == [kind |-> "none"]

Take(s, n) == SubSeq(s, 1, n)
Drop(s, n) == SubSeq(s, n + 1, Len(s))

\* nom::bytes::complete::take(n)
nom_take(n, data) ==
    IF Len(data) < n THEN PErr("Eof", data) ELSE POk(Drop(data, n), Take(data, n))

\* the loop of take_tag: bytes of rest with bit 8 set, up to the first without
ContinuationBytes(rest) ==
    LET stops == {i \in 1..Len(rest) : rest[i] < 128}
    IN  IF stops = {} THEN Len(rest)
        ELSE (CHOOSE i \in stops : \A j \in stops : i <= j) - 1

\* ber.rs 52-67
take_tag(data) ==
    LET first == nom_take(1, data)
    IN  IF first.kind # "ok" THEN first
        ELSE IF first.out[1] % 32 # 31 THEN first
        ELSE nom_take(2 + ContinuationBytes(first.rest), data)

\* byteorder BigEndian::read_uint(data, nbytes), for the 1 <= nbytes <= 8 its
\* assertion admits
RECURSIVE BigEndian_read_uint(_, _)
BigEndian_read_uint(data, nbytes) ==
    IF nbytes = 0 THEN 0
    ELSE BigEndian_read_uint(data, nbytes - 1) * 256 + data[nbytes]

\* a length check that lets the zero count through
LenLenRejected_only_large(lenlen) == lenlen > 8

\* ber.rs 87: if lenlen < 1 || lenlen > 8
LenLenRejected(lenlen) == lenlen < 1 \/ lenlen > 8

\* ber.rs 79-97.  &data[lenlen..] and read_uint panic when fewer than lenlen
\* bytes follow the first, and read_uint panics on a count of 0
take_len(data_) ==
    IF Len(data_) < 1 THEN PErr("Eof", data_)
    ELSE LET data == Drop(data_, 1)
             first == data_[1]
             lenlen == first % 128
         IN  IF first <= 127 THEN POk(data, first)
             ELSE IF LenLenRejected(lenlen) THEN PErr("TooLarge", data_)
             ELSE IF Len(data) < lenlen \/ lenlen < 1 THEN PPanic
             ELSE POk(Drop(data, lenlen), BigEndian_read_uint(data, lenlen))

\* ber.rs 100-105
parse_next(data) ==
    LET t == take_tag(data)
    IN  IF t.kind # "ok" THEN t
        ELSE LET l == take_len(t.rest)
             IN  IF l.kind # "ok" THEN l
                 ELSE LET v == nom_take(l.out, l.rest)
                      IN  IF v.kind # "ok" THEN v
                          ELSE POk(v.rest, <<t.out, v.out>>)

\* A write returns [ok, buf, size].
\* scroll Pwrite::pwrite_with of a byte string: refused when the offset is not
\* inside the buffer or the bytes do not fit behind it
pwrite(buf, bytes, offset) ==
    IF offset >= Len(buf) \/ Len(bytes) > Len(buf) - offset
    THEN [ok |-> FALSE, buf |-> buf, size |-> 0]
    ELSE [ok |-> TRUE,
          buf |-> [i \in 1..Len(buf) |->
                     IF i > offset /\ i <= offset + Len(bytes)
                     THEN bytes[i - offset] ELSE buf[i]],
          size |-> Len(bytes)]

\* the bytes of an unsigned integer of the given width in the given byte order
\* (scroll's default context is the target's native order)
IntBytes(x, width, endian) ==
    [i \in 1..width |->
        LET k == IF endian = "little" THEN i - 1 ELSE width - i
        IN  (x \div (256 ^ k)) % 256]

WOk(bytes) == [kind |-> "ok", bytes |-> bytes]
WErr == [kind |-> "err", bytes |-> <<>>]

\* ber.rs 135-159, TV(tag, value).try_into_ctx(buf, ()) on a zeroed buffer of cap
\* bytes: the bytes buf[..offset] it reports as written.  A length beyond
\* u32::MAX (the u64 branch) is outside what a sequence here can hold.
TV_try_into_ctx(tag, value, cap, endian) ==
    LET len == Len(value)
        w1 == pwrite(Fill(cap, 0), tag, 0)
        offset1 == w1.size
    IN  IF ~w1.ok THEN WErr
        ELSE IF len <= 127
        THEN LET w2 == pwrite(w1.buf, <<len>>, offset1)
                 w3 == pwrite(w2.buf, value, offset1 + 1)
             IN  IF ~w2.ok \/ ~w3.ok THEN WErr
                 ELSE WOk(Take(w3.buf, offset1 + 1 + len))
        ELSE LET width == IF len <= 255 THEN 1 ELSE IF len <= 65535 THEN 2 ELSE 4
                 w2 == pwrite(w1.buf, IntBytes(len, width, endian), offset1 + 1)
                 lenlen == w2.size
                 w3 == pwrite(w2.buf, <<128 + lenlen>>, offset1)
                 \* offset still points at the length field
                 w4 == pwrite(w3.buf, value, offset1)
             IN  IF ~w2.ok \/ ~w3.ok \/ ~w4.ok THEN WErr
                 ELSE WOk(Take(w4.buf, offset1 + len))

\* the (tag, value) pairs, buffers and raw inputs the codec is run on
Tags == {<<\h6F>>, <<\h9F, \h11>>, <<\hDF, \h81, \h01>>, <<\h1F, \h81, \h82, \h03>>}
ValueLens == {0, 1, 2, 127, 128, 129, 255, 256}
ValueBytes == {\h00, \h05, \h80, \h82, \hFF}
Values == {Fill(n, b) : n \in ValueLens, b \in ValueBytes}
Caps == {16, 512}
Endians == {"little", "big"}
RawInputs ==
    {<<>>, <<\h00, \hED>>, <<\h01, \hED>>, <<\h7F, \hED>>,
     <<\h80, \hED>>, <<\h80>>, <<\h81, \h00, \hED>>, <<\h81, \hFF, \hED>>,
     <<\h81>>, <<\h82, \h01>>, <<\h82, \h01, \h00, \hED>>,
     <<\h88, 0, 0, 0, 0, 0, 0, 1, 0, \hED>>,
     <<\h89, 1, 2, 3, 4, 5, 6, 7, 8, 9, \hED>>, <<\hFF, \hED>>,
     <<\h6F, \h02, \h84, \h00>>, <<\h6F, \h80, \h84, \h00>>, <<\h9F>>,
     <<\h6F>>, <<\h6F, \h02, \h84>>,
     <<\h84, \h01, \hAA, \hA5, \h00>>, <<\h84, \h01, \hAA, \hA5, \h02, \h88>>,
     <<\h84, \h01, \hAA, \h9F>>}

\* buf.pwrite(TV(tag, value), 0)
ber_TV_write ==
    /\ berPc = "tv"
    /\ LET w == TV_try_into_ctx(berTag, berVal, berCap, berEndian)
       IN  /\ berBuf' = w.bytes
           /\ berIn' = w.bytes
           /\ berRes' = IF w.kind = "ok" THEN NoParse ELSE [kind |-> "write_err"]
           /\ berPc' = IF w.kind = "ok" THEN "written" ELSE "failed"
    /\ UNCHANGED <<berTag, berVal, berCap, berEndian, berItems, cmdVars, iterVars, statusVars, atrVars, encVars, pbVars, feVars, moreVars>>

\* parse_next(input), on what TV wrote or on a raw input
ber_parse_next ==
    /\ berPc \in {"written", "input"}
    /\ berRes' = parse_next(berIn)
    /\ berPc' = "parsed"
    /\ UNCHANGED <<berTag, berVal, berCap, berEndian, berBuf, berIn, berItems,
                   cmdVars, iterVars, statusVars, atrVars, encVars, pbVars, feVars, moreVars>>

\* take_len(input) on a raw input
ber_take_len ==
    /\ berPc = "input"
    /\ berRes' = take_len(berIn)
    /\ berPc' = "took_len"
    /\ UNCHANGED <<berTag, berVal, berCap, berEndian, berBuf, berIn, berItems,
                   cmdVars, iterVars, statusVars, atrVars, encVars, pbVars, feVars, moreVars>>

\* ber.rs 118-130, Iter::next over iter(input): berIn is self.data
ber_Iter_next ==
    /\ berPc \in {"input", "iterating"}
    /\ LET r == parse_next(berIn)
       IN  /\ berIn' = IF r.kind = "ok" THEN r.rest ELSE berIn
           /\ berRes' = IF r.kind = "ok" THEN [kind |-> "some_ok", out |-> r.out]
                        ELSE IF r.kind = "err" /\ r.code = "Eof" THEN [kind |-> "none"]
                        ELSE IF r.kind = "err" THEN [kind |-> "some_err", code |-> r.code]
                        ELSE PPanic
           /\ berPc' = IF r.kind = "panic" THEN "panicked" ELSE "iterating"
           /\ berItems' = IF r.kind = "ok" \/ (r.kind = "err" /\ r.code # "Eof")
                          THEN Min(berItems + 1, MaxCount) ELSE berItems
    /\ UNCHANGED <<berTag, berVal, berCap, berEndian, berBuf,
                   cmdVars, iterVars, statusVars, atrVars, encVars, pbVars, feVars, moreVars>>

-----------------------------------------------------------------------------
(* The ATR parser, atr.rs.  An absent Option<u8> is None; an absent TDn,    *)
(* InitialAccess or HistoricalBytes is a record with present = FALSE.       *)

\* v & 1 << i > 0
Bit(v, i) == (v \div (2 ^ i)) % 2 = 1

T0_from(v) == [k |-> v % 16, tx1 |-> v \div 16]

TDn_from(v) == [present |-> TRUE, protocol |-> v % 16, txn |-> v \div 16]

NoTDn == [present |-> FALSE, protocol |-> 0, txn |-> 0]

\* a mask that never carries over from the previous TD
TDn_txn_ignored(td) == 0

\* td.map(|v| v.txn).unwrap_or_default()
TDn_txn_or_default(td) == IF td.present THEN td.txn ELSE 0

\* nom::number::complete::be_u8
be_u8(data) ==
    IF Len(data) < 1 THEN PErr("Eof", data) ELSE POk(Drop(data, 1), data[1])

\* nom::combinator::cond(c, be_u8)
cond_be_u8(c, data) == IF c THEN be_u8(data) ELSE POk(data, None)

parse_txn(data, last_td) ==
    Bind(cond_be_u8(Bit(last_td, 0), data), LAMBDA ta :
    IF ta.kind # "ok" THEN ta ELSE
    Bind(cond_be_u8(Bit(last_td, 1), ta.rest), LAMBDA tb :
    IF tb.kind # "ok" THEN tb ELSE
    Bind(cond_be_u8(Bit(last_td, 2), tb.rest), LAMBDA tc :
    IF tc.kind # "ok" THEN tc ELSE
    Bind(cond_be_u8(Bit(last_td, 3), tc.rest), LAMBDA td :
    IF td.kind # "ok" THEN td ELSE
    POk(td.rest, [ta |-> ta.out, tb |-> tb.out, tc |-> tc.out,
                  td |-> IF td.out = None THEN NoTDn ELSE TDn_from(td.out)])))))

\* enum Standard, FromPrimitive with catch_all
Standard_from(v) ==
    IF v = \h03 THEN "Iso14443a3" ELSE IF v = \h11 THEN "FeliCa" ELSE "Unknown"

NoInitialAccess == [present |-> FALSE, standard |-> "Unknown", card_name |-> 0]

\* take(5) rid, be_u8 standard, be_u16 card_name, be_u32 rfu; .ok() of the
\* result as the TLV loop takes it (rid and rfu are not carried)
parse_initial_access(value) ==
    IF Len(value) < 5 + 1 + 2 + 4 THEN NoInitialAccess
    ELSE [present |-> TRUE, standard |-> Standard_from(value[6]),
          card_name |-> value[7] * 256 + value[8]]

HistoricalBytesTLV_default ==
    [service_data |-> None, initial_access |-> NoInitialAccess,
     pre_issuing_data |-> FALSE, status |-> FALSE]

\* parse_historical_bytes_status(..).is_some()
parse_historical_bytes_status(data) == Len(data) \in {1, 2, 3}

\* one turn of the while loop: the entry of tag `tag` with value `value`
tlv_entry(tlv, tag, value) ==
    IF tag = \h30
    THEN [tlv EXCEPT !.service_data = IF Len(value) = 0 THEN None ELSE value[1]]
    ELSE IF tag = \h40
    THEN [tlv EXCEPT !.initial_access = parse_initial_access(value)]
    ELSE IF tag = \h60
    THEN [tlv EXCEPT !.pre_issuing_data = TRUE]
    ELSE IF tag = \h80
    THEN [tlv EXCEPT !.status = parse_historical_bytes_status(value)]
    ELSE tlv

\* the while loop over the COMPACT-TLV entries of category 0x80
RECURSIVE tlv_loop(_, _)
tlv_loop(rest, tlv) ==
    IF Len(rest) = 0 THEN POk(rest, tlv)
    ELSE Bind(IF rest[1] % 16 # \h0F THEN POk(Drop(rest, 1), rest[1] % 16)
              ELSE be_u8(Drop(rest, 1)), LAMBDA len :
         IF len.kind # "ok" THEN len ELSE
         Bind(nom_take(len.out, len.rest), LAMBDA value :
         IF value.kind # "ok" THEN value ELSE
         Bind(tlv_entry(tlv, rest[1] - (rest[1] % 16), value.out), LAMBDA next :
         tlv_loop(value.rest, next))))

NoHistoricalBytes == [kind |-> "None", tlv |-> HistoricalBytesTLV_default]

parse_historical_bytes(data) ==
    Bind(be_u8(data), LAMBDA cat :
    IF cat.kind # "ok" THEN cat
    ELSE IF cat.out = \h10
    THEN POk(<<>>, [kind |-> IF parse_historical_bytes_status(cat.rest)
                             THEN "Status" ELSE "Unknown",
                    tlv |-> HistoricalBytesTLV_default])
    ELSE IF cat.out = \h80
    THEN Bind(tlv_loop(cat.rest, HistoricalBytesTLV_default), LAMBDA l :
         IF l.kind # "ok" THEN l
         ELSE POk(cat.rest, [kind |-> "TLV", tlv |-> l.out]))
    ELSE POk(<<>>, [kind |-> "Unknown", tlv |-> HistoricalBytesTLV_default]))

\* the three interface groups as atr::parse reads them, lines 373-375
atr_groups(data, t0) ==
    Bind(parse_txn(data, t0.tx1), LAMBDA tx1 :
    IF tx1.kind # "ok" THEN tx1 ELSE
    Bind(parse_txn(tx1.rest, TDn_txn_or_default(tx1.out.td)), LAMBDA tx2 :
    IF tx2.kind # "ok" THEN tx2 ELSE
    Bind(parse_txn(tx2.rest, TDn_txn_or_default(tx2.out.td)), LAMBDA tx3 :
    IF tx3.kind # "ok" THEN tx3 ELSE
    POk(tx3.rest, <<tx1.out, tx2.out, tx3.out>>))))

\* the historical bytes and TCK, atr::parse lines 379-386
atr_tail(ts, t0, tx) ==
    Bind(IF t0.k > 0 THEN nom_take(t0.k, tx.rest) ELSE POk(tx.rest, <<>>), LAMBDA raw :
    IF raw.kind # "ok" THEN raw ELSE
    Bind(IF t0.k > 0 THEN parse_historical_bytes(raw.out)
         ELSE POk(<<>>, NoHistoricalBytes), LAMBDA hb :
    IF hb.kind # "ok" THEN hb ELSE
    Bind(be_u8(raw.rest), LAMBDA tck :
    IF tck.kind # "ok" THEN tck ELSE
    POk(tck.rest, [ts |-> ts, t0 |-> t0, tx1 |-> tx.out[1], tx2 |-> tx.out[2],
                   tx3 |-> tx.out[3], historical_bytes |-> hb.out, tck |-> tck.out]))))

\* atr::parse; the failed assert! of line 377 is a panic
atr_parse(data) ==
    IF Len(data) < 2 THEN PErr("Eof", Drop(data, Len(data)))
    ELSE Bind(atr_groups(Drop(data, 2), T0_from(data[2])), LAMBDA tx :
         IF tx.kind # "ok" THEN tx
         ELSE IF TDn_txn_or_default(tx.out[3].td) # 0 THEN PPanic
         ELSE atr_tail(data[1], T0_from(data[2]), tx))

\* the ATR of test_parse_curve
AtrCurve ==
    <<\h3B, \h8E, \h80, \h01, \h80, \h31, \h80, \h66, \hB1, \h84, \h0C, \h01,
      \h6E, \h01, \h83, \h00, \h90, \h00, \h1C>>

\* the ATR of test_parse_pasmo (a FeliCa card)
AtrFeliCa ==
    <<\h3B, \h8F, \h80, \h01, \h80, \h4F, \h0C, \hA0, \h00, \h00, \h03, \h06,
      \h11, \h00, \h3B, \h00, \h00, \h00, \h00, \h42>>

\* the same ATR with standard 03 (ISO 14443A part 3) and card name 0001
AtrMifare ==
    <<\h3B, \h8F, \h80, \h01, \h80, \h4F, \h0C, \hA0, \h00, \h00, \h03, \h06,
      \h03, \h00, \h01, \h00, \h00, \h00, \h00, \h6A>>

\* an ATR whose initial access entry is cut short (4F 02)
AtrShortInitialAccess == <<\h3B, \h85, \h80, \h01, \h80, \h4F, \h02, \hA0, \h00, \hAA>>

AtrBytes == {\h00, \h01, \h80, \h90}

AtrFormats == {\h00, \h80, \h90, \h81}

RECURSIVE AtrTails(_)
AtrTails(n) ==
    IF n = 0 THEN {<<>>}
    ELSE LET s == AtrTails(n - 1) IN
         s \cup {Append(t, b) : t \in {x \in s : Len(x) = n - 1}, b \in AtrBytes}

AtrInputs ==
    {<<>>, <<\h3B>>, AtrCurve, AtrFeliCa, AtrMifare, AtrShortInitialAccess}
    \cup {<<\h3B, f>> \o t : f \in AtrFormats, t \in AtrTails(MaxAtrTail)}

atr_parse_call ==
    /\ atrPc = "input"
    /\ atrRes' = atr_parse(atrIn)
    /\ atrPc' = "parsed"
    /\ UNCHANGED <<atrIn, cmdVars, iterVars, statusVars, berVars, encVars, pbVars, feVars, moreVars>>

-----------------------------------------------------------------------------
(* Serialization of commands.  A file reference is [kind, bytes]; a SELECT  *)
(* is [op, file, occurrence]; a READ RECORD is [op, sfi, num]; a plain APDU *)
(* is [op, apdu].                                                           *)

\* iso7816/select.rs AID::p1 (P1::SELECT_BY_NAME = 0b100)
AID_p1(aid) == IF aid.kind = "Name" THEN 4 ELSE 0

\* iso7816/select.rs Occurrence::p2 (P2::NEXT_OCCURRENCE = 0b10)
Occurrence_p2(occ) == IF occ = "Next" THEN 2 ELSE 0

\* iso7816/select.rs Into<APDU> for Select
iso7816_Select_into(sel) ==
    APDU_new(\h00, \hA4, AID_p1(sel.file), Occurrence_p2(sel.occurrence), sel.file.bytes)

\* card/commands/select.rs SelectOccurrence::apdu_p2
SelectOccurrence_apdu_p2(occ) ==
    CASE occ = "First" -> 0
      [] occ = "Last" -> 1
      [] occ = "Next" -> 2
      [] OTHER -> 3

\* card/commands/select.rs Select::p1
commands_Select_p1(file) == IF file.kind = "Name" THEN 4 ELSE 0

\* core/file.rs Into<Vec<u8>> for FileID
FileID_into(file) == IF file.kind = "MF" THEN <<\h3F, \h00>> ELSE file.bytes

\* cmd.rs Request::to_apdu over card/commands/select.rs Select: cla() and le()
\* are the trait defaults 0x00 and None
commands_Select_to_apdu(sel) ==
    Request_new(\h00, \hA4, commands_Select_p1(sel.file),
                SelectOccurrence_apdu_p2(sel.occurrence), FileID_into(sel.file))

\* v.sfi << 3 on a u8: the bits shifted out are lost
Shl3(sfi) == (sfi * 8) % 256

\* a shift by two bits instead of three
ReadRecord_p2_shift_two(sfi) == ((sfi * 4) % 256) + 4

\* (v.sfi << 3) | 0b0000_0100: the low three bits of the shifted value are 0
ReadRecord_p2(sfi) == Shl3(sfi) + 4

\* iso7816.rs From<ReadRecord> for Command: new_with_le(.., 0x00)
iso7816_ReadRecord_into(rr) == Rq(\h00, \hB2, rr.num, ReadRecord_p2(rr.sfi), <<>>, 0)

\* iso7816/read_record.rs Into<APDU> for ReadRecord
read_record_ReadRecord_into(rr) == APDU_new(\h00, \hB2, rr.num, ReadRecord_p2(rr.sfi), <<>>)

\* the application identifier of select_aid and test_select_cirrus
AidCirrus == <<\hA0, \h00, \h00, \h00, \h04, \h60, \h00>>

\* "1PAY.SYS.DDF01"
NamePse ==
    <<\h31, \h50, \h41, \h59, \h2E, \h53, \h59, \h53, \h2E, \h44, \h44, \h46, \h30, \h31>>

EncVias == {"commands_select", "iso7816_select", "iso7816", "read_record", "protocol"}

EncFiles(via) ==
    IF via = "iso7816_select"
    THEN {[kind |-> "ID", bytes |-> AidCirrus], [kind |-> "Name", bytes |-> AidCirrus],
          [kind |-> "Name", bytes |-> NamePse]}
    ELSE {[kind |-> "AID", bytes |-> AidCirrus], [kind |-> "Name", bytes |-> AidCirrus],
          [kind |-> "Name", bytes |-> NamePse], [kind |-> "MF", bytes |-> <<>>],
          [kind |-> "EF", bytes |-> <<\h2F, \h00>>], [kind |-> "DF", bytes |-> <<\h7F, \h10>>]}

EncOccurrences(via) ==
    IF via = "iso7816_select" THEN {"First", "Next"}
    ELSE {"First", "Last", "Next", "Previous"}

EncBodies == {<<>>, <<\h56, \h78>>, Fill(U8Max, \h11), Fill(U8Max + 1, \h11)}

EncCommands(via) ==
    IF via \in {"commands_select", "iso7816_select"}
    THEN {[op |-> "Select", file |-> f, occurrence |-> o] :
            f \in EncFiles(via), o \in EncOccurrences(via)}
    ELSE IF via \in {"iso7816", "read_record"}
    THEN {[op |-> "ReadRecord", sfi |-> s, num |-> n] : s \in 0..MaxSfi, n \in Byte}
    ELSE {[op |-> "APDU", apdu |-> APDU_expect(APDU_new(\h00, \hA4, \h12, \h34, b), le)] :
            b \in EncBodies, le \in {\h00, \h20}}

Written(enc) ==
    /\ enWire' = enc.bytes
    /\ enPc' = IF enc.ok THEN "written" ELSE "failed"
    /\ UNCHANGED <<enVia, enCmd, enProto, cmdVars, iterVars, statusVars, berVars, atrVars,
                   pbVars, feVars, moreVars>>

\* card/commands/select.rs Select through Request::to_apdu and APDU::serialize_req
commands_Select_serialize ==
    /\ enPc = "built" /\ enVia = "commands_select"
    /\ Written(APDU_serialize_req(commands_Select_to_apdu(enCmd)))

\* iso7816/select.rs Select through Into<APDU> and Protocol::write_req
iso7816_Select_write ==
    /\ enPc = "built" /\ enVia = "iso7816_select"
    /\ Written(Protocol_write_req(enProto, iso7816_Select_into(enCmd)))

\* iso7816.rs ReadRecord through From<ReadRecord> for Command and Command::write
iso7816_ReadRecord_write ==
    /\ enPc = "built" /\ enVia = "iso7816"
    /\ Written(Enc(TRUE, Command_write(iso7816_ReadRecord_into(enCmd))))

\* iso7816/read_record.rs ReadRecord through Into<APDU> and Protocol::write_req
read_record_ReadRecord_write ==
    /\ enPc = "built" /\ enVia = "read_record"
    /\ Written(Protocol_write_req(enProto, read_record_ReadRecord_into(enCmd)))

\* protocol.rs Protocol::write_req on an APDU
Protocol_write_req_call ==
    /\ enPc = "built" /\ enVia = "protocol"
    /\ Written(Protocol_write_req(enProto, enCmd.apdu))

-----------------------------------------------------------------------------
(* The probe of the cardinal binary, bin/cardinal/probe.rs and              *)
(* bin/cardinal/probe_felica.rs, over util::call_apdu and felica.rs.        *)
(* An IDm is its eight big-endian bytes.                                    *)

\* util.rs call_apdu, from what card.transmit came back with
util_call_apdu_res(ans) ==
    LET l == Len(ans.bytes) IN
    IF ans.err THEN [kind |-> "err", data |-> <<>>]
    ELSE IF l < 2 THEN [kind |-> "panic", data |-> <<>>]
    ELSE IF <<ans.bytes[l - 1], ans.bytes[l]>> # <<\h90, \h00>>
    THEN [kind |-> "err", data |-> <<>>]
    ELSE [kind |-> "ok", data |-> SubSeq(ans.bytes, 1, l - 2)]

\* felica.rs cid_to_idm: cid.pread_with::<u64>(0, BE)
cid_to_idm(cid) ==
    IF Len(cid) < 8 THEN [kind |-> "err", idm |-> <<>>]
    ELSE [kind |-> "ok", idm |-> Take(cid, 8)]

\* felica.rs idm_for_service for n < 0b0000_1111
idm_for_service(idm0, n) == [idm0 EXCEPT ![1] = (idm0[1] % 16) + ((n * 16) % 256)]

\* felica.rs parse_response_header: tag(len), tag(code), be_u64
parse_response_header(code, data) ==
    IF Len(data) < 1 \/ data[1] # Len(data) % 256 THEN PErr("Tag", data)
    ELSE IF Len(data) < 2 \/ data[2] # code THEN PErr("Tag", Drop(data, 1))
    ELSE IF Len(data) < 10 THEN PErr("Eof", Drop(data, 2))
    ELSE POk(Drop(data, 10), SubSeq(data, 3, 10))

\* felica.rs RequestSystemCodeResponse::iparse; num_systems * 2 is a u8
\* product: with overflow checks it panics from 128 on, without it wraps
RequestSystemCodeResponse_iparse(data, checked) ==
    LET h == parse_response_header(\h0D, data) IN
    IF h.kind # "ok" THEN [kind |-> "err", systems |-> 0]
    ELSE IF Len(h.rest) < 1 THEN [kind |-> "err", systems |-> 0]
    ELSE LET num == h.rest[1] IN
         IF num * 2 > U8Max /\ checked THEN [kind |-> "panic", systems |-> 0]
         ELSE IF Len(h.rest) - 1 < (num * 2) % 256 THEN [kind |-> "err", systems |-> 0]
         ELSE [kind |-> "ok", systems |-> ((num * 2) % 256) \div 2]

\* felica.rs ReadWithoutEncryptionResponse::iparse: the header, then
\* status: (0, 0) and blocks: vec![] whatever follows
ReadWithoutEncryptionResponse_iparse(data) ==
    LET h == parse_response_header(\h07, data) IN
    IF h.kind # "ok" THEN [kind |-> "err", status |-> <<0, 0>>, blocks |-> 0]
    ELSE [kind |-> "ok", status |-> <<0, 0>>, blocks |-> 0]

\* felica.rs Command::call of RequestSystemCode
RequestSystemCode_call(ans, checked) ==
    LET r == util_call_apdu_res(ans) IN
    IF r.kind # "ok" THEN [kind |-> r.kind, systems |-> 0]
    ELSE RequestSystemCodeResponse_iparse(r.data, checked)

\* felica.rs Command::call of ReadWithoutEncryption
ReadWithoutEncryption_call(ans) ==
    LET r == util_call_apdu_res(ans) IN
    IF r.kind # "ok" THEN [kind |-> r.kind, status |-> <<0, 0>>, blocks |-> 0]
    ELSE ReadWithoutEncryptionResponse_iparse(r.data)

\* probe.rs get_atr_card_standard
get_atr_card_standard(atr) ==
    IF atr.historical_bytes.kind = "TLV" /\ atr.historical_bytes.tlv.initial_access.present
    THEN atr.historical_bytes.tlv.initial_access.standard
    ELSE "Iso14443a3"

\* the block catalogue of probe_felica_lite_s and its two services
LiteSBlocks ==
    <<\h00, \h01, \h02, \h03, \h04, \h05, \h06, \h07, \h08, \h09, \h0A, \h0B, \h0C,
      \h0D, \h0E, \h80, \h81, \h82, \h83, \h84, \h85, \h86, \h87, \h88, \h90, \h91,
      \h92, \hA0>>

LiteSServices == <<\h0B, \h09>>

LiteSReads == Len(LiteSServices) * Len(LiteSBlocks)

\* the IDm of the felica.rs tests
FeIdm == <<\h01, \h01, \h0A, \h10, \h8E, \h1B, \hAD, \h39>>

Answer(bytes) == [err |-> FALSE, bytes |-> bytes]

TransmitError == [err |-> TRUE, bytes |-> <<>>]

\* a FeliCa response frame (length, code, IDm, payload) under status word 90 00
FeFrame(code, payload) ==
    Answer(<<10 + Len(payload), code>> \o FeIdm \o payload \o <<\h90, \h00>>)

\* answers to the PCSC GET DATA pseudo-APDU (FF CA P1 00 00): the card ID or
\* the PMm, a shorter value, nothing but the status word, an error status,
\* less than a status word, or a failed transmit
GetDataAnswers ==
    {TransmitError, Answer(<<>>), Answer(<<\h6A, \h81>>), Answer(<<\h90, \h00>>),
     Answer(<<\h01, \h90, \h00>>), Answer(<<\h01, \h02, \h03, \h04, \h90, \h00>>),
     Answer(FeIdm \o <<\h90, \h00>>)}

\* answers to RequestSystemCode: one or two systems, a system list cut short,
\* a count of 128, an error status, less than a status word, a failed transmit
SystemCodeAnswers ==
    {TransmitError, Answer(<<>>), Answer(<<\h6A, \h81>>),
     FeFrame(\h0D, <<\h01, \h00, \h03>>),
     FeFrame(\h0D, <<\h02, \h00, \h03, \hFE, \h00>>),
     FeFrame(\h0D, <<\h02, \h00>>),
     FeFrame(\h0D, <<\h80>>)}

\* answers to ReadWithoutEncryption: a block, status flags 01 A6 (the card
\* refuses the block), a frame cut short, an error status, less than a status
\* word, a failed transmit
ReadAnswers ==
    {TransmitError, Answer(<<>>), Answer(<<\h6A, \h81>>),
     FeFrame(\h07, <<\h00, \h00, \h01>> \o Fill(16, \hEE)),
     FeFrame(\h07, <<\h01, \hA6>>),
     Answer(<<\h0C, \h07, \h90, \h00>>)}

Standards == {"Iso14443a3", "FeliCa", "Unknown"}

\* what get_attribute(AtrString) hands to probe_atr
ProbeAtrs ==
    {AtrCurve, AtrFeliCa, AtrMifare, AtrShortInitialAccess,
     <<\h3B, \h00, \h00>>, <<\h3B, \h80>>, <<\h3B, \h80, \h80, \h80, \h90>>}

NoAtr == [kind |-> "none"]

\* probe.rs 48-102 probe_reader: a failed attribute query is logged (debug)
probe_reader ==
    /\ pbPc = "reader"
    /\ \E failed \in BOOLEAN :
         pbFails' = IF failed THEN pbFails \cup {"reader"} ELSE pbFails
    /\ pbPc' = "cid"
    /\ UNCHANGED <<pbForce, pbCid, pbAtr, pbStd, pbRan, pbRet, feVars, otherVars>>

\* probe.rs 17-19 over probe_cid 116-125: .tap_err(warn).ok()
probe_cid ==
    /\ pbPc = "cid"
    /\ \E ans \in GetDataAnswers :
         LET r == util_call_apdu_res(ans)
         IN  /\ pbCid' = [some |-> r.kind = "ok", bytes |-> r.data]
             /\ pbFails' = IF r.kind = "ok" THEN pbFails ELSE pbFails \cup {"cid"}
             /\ pbPc' = IF r.kind = "panic" THEN "done" ELSE "atr"
             /\ pbRet' = IF r.kind = "panic" THEN "panic" ELSE pbRet
    /\ UNCHANGED <<pbForce, pbAtr, pbStd, pbRan, feVars, otherVars>>

\* probe.rs 20 over probe_atr 148-158: both failures leave probe through `?`
probe_atr ==
    /\ pbPc = "atr"
    /\ \E got \in [err : {TRUE}, bytes : {<<>>}] \cup [err : {FALSE}, bytes : ProbeAtrs] :
         \E r \in {IF got.err THEN PErr("pcsc", <<>>) ELSE atr_parse(got.bytes)} :
             /\ pbAtr' = IF r.kind = "ok" THEN [kind |-> "ok", out |-> r.out]
                         ELSE [kind |-> r.kind]
             /\ pbFails' = IF r.kind = "ok" THEN pbFails ELSE pbFails \cup {"atr"}
             /\ pbPc' = IF r.kind = "ok" THEN "branch" ELSE "done"
             /\ pbRet' = IF r.kind = "ok" THEN pbRet
                         ELSE IF r.kind = "panic" THEN "panic" ELSE "err"
    /\ UNCHANGED <<pbForce, pbCid, pbStd, pbRan, feVars, otherVars>>

\* probe.rs 22-43: the match on the standard
probe_branch ==
    /\ pbPc = "branch"
    /\ LET std == IF pbForce # "None" THEN pbForce ELSE get_atr_card_standard(pbAtr.out)
       IN  /\ pbStd' = std
           /\ IF std = "FeliCa"
              THEN IF pbCid.some
                   THEN pbPc' = "felica" /\ pbRet' = pbRet /\ pbRan' = pbRan \cup {"felica"}
                   ELSE pbPc' = "done" /\ pbRet' = "ok" /\ pbRan' = pbRan
              ELSE pbPc' = "emv" /\ pbRet' = pbRet /\ pbRan' = pbRan \cup {"emv"}
    /\ UNCHANGED <<pbForce, pbCid, pbAtr, pbFails, feVars, otherVars>>

\* probe.rs 39-41 over probe_emv 398-413: an error is logged, the result dropped
probe_emv ==
    /\ pbPc = "emv"
    /\ \E outcome \in {"ok", "err", "panic"} :
         pbRet' = IF outcome = "panic" THEN "panic" ELSE "ok"
    /\ pbPc' = "done"
    /\ UNCHANGED <<pbForce, pbCid, pbAtr, pbStd, pbRan, pbFails, feVars, otherVars>>

\* how probe (lines 30-32) ends when probe_felica returns r
FelicaReturns(r) ==
    /\ feRet' = r
    /\ pbPc' = "done"
    /\ pbRet' = IF r = "panic" THEN "panic" ELSE "ok"

\* probe_felica.rs 15-31: cid_to_idm, then the PMm query with .tap_err(warn)
\* .tap_ok(print pmm[0], pmm[1]) and `?`
probe_felica_pmm ==
    /\ pbPc = "felica"
    /\ LET i == cid_to_idm(pbCid.bytes) IN
       IF i.kind # "ok"
       THEN FelicaReturns("err") /\ UNCHANGED <<feIdm, feDone, fePmmFailed>>
       ELSE \E ans \in GetDataAnswers :
              LET r == util_call_apdu_res(ans)
              IN  /\ feIdm' = i.idm
                  /\ feDone' = feDone \cup {"PMm"}
                  /\ fePmmFailed' = (r.kind # "ok")
                  /\ IF r.kind = "panic" \/ (r.kind = "ok" /\ Len(r.data) < 2)
                     THEN FelicaReturns("panic")
                     ELSE IF r.kind = "err" THEN FelicaReturns("err")
                     ELSE pbPc' = "felica_rsc" /\ UNCHANGED <<feRet, pbRet>>
    /\ UNCHANGED <<pbForce, pbCid, pbAtr, pbStd, pbRan, pbFails,
                   feIdx, feFailed, feAbsent, otherVars>>

\* probe_felica.rs 36-45: RequestSystemCode chooses the walk or the fallback
probe_felica_request_system_code ==
    /\ pbPc = "felica_rsc"
    /\ \E ans \in SystemCodeAnswers, checked \in BOOLEAN :
         LET r == RequestSystemCode_call(ans, checked)
         IN  /\ feDone' = feDone \cup {"RequestSystemCode"}
             /\ IF r.kind = "panic" THEN FelicaReturns("panic")
                ELSE /\ pbPc' = IF r.kind = "ok" THEN "felica_systems" ELSE "felica_lite_s"
                     /\ UNCHANGED <<feRet, pbRet>>
    /\ UNCHANGED <<pbForce, pbCid, pbAtr, pbStd, pbRan, pbFails,
                   feIdm, fePmmFailed, feIdx, feFailed, feAbsent, otherVars>>

\* probe_felica.rs 48-171 probe_felica_systems, by its outcome only: Ok, the
\* error of a call that failed, or a panic
probe_felica_systems ==
    /\ pbPc = "felica_systems"
    /\ feDone' = feDone \cup {"systems"}
    /\ \E outcome \in {"ok", "err", "panic"} : FelicaReturns(outcome)
    /\ UNCHANGED <<pbForce, pbCid, pbAtr, pbStd, pbRan, pbFails,
                   feIdm, fePmmFailed, feIdx, feFailed, feAbsent, otherVars>>

\* the card did not deliver the block: the call failed, or the frame carries
\* status flags other than 00 00
ReadRefused(ans) ==
    \/ util_call_apdu_res(ans).kind # "ok"
    \/ Len(ans.bytes) < 14
    \/ <<ans.bytes[11], ans.bytes[12]>> # <<0, 0>>

\* probe_felica.rs 173-268 probe_felica_lite_s: one turn of the loop over the
\* block catalogue of both services (the read of line 237-246 and what is
\* printed for it)
probe_felica_lite_s ==
    /\ pbPc = "felica_lite_s"
    /\ \E ans \in ReadAnswers :
         LET rsp == ReadWithoutEncryption_call(ans)
         IN  /\ feIdx' = feIdx + 1
             /\ feDone' = feDone \cup {"lite_s"}
             /\ feIdm' = idm_for_service(feIdm, 0)
             /\ feFailed' = IF ReadRefused(ans) THEN feFailed + 1 ELSE feFailed
             /\ feAbsent' = IF rsp.kind = "ok" /\ rsp.status # <<0, 0>>
                            THEN feAbsent + 1 ELSE feAbsent
             /\ IF rsp.kind # "ok" THEN FelicaReturns(rsp.kind)
                ELSE IF feIdx + 1 = LiteSReads THEN FelicaReturns("ok")
                ELSE UNCHANGED <<pbPc, feRet, pbRet>>
    /\ UNCHANGED <<pbForce, pbCid, pbAtr, pbStd, pbRan, pbFails, fePmmFailed, otherVars>>

-----------------------------------------------------------------------------
(* FeliCa helpers of felica.rs called on their own, and the block dump of   *)
(* an unauthenticated service in probe_felica_systems.                      *)

\* a | b on u8
RECURSIVE BitOr(_, _)
BitOr(a, b) ==
    IF a = 0 THEN b
    ELSE IF b = 0 THEN a
    ELSE (IF a % 2 = 1 \/ b % 2 = 1 THEN 1 ELSE 0) + 2 * BitOr(a \div 2, b \div 2)

\* felica.rs AccessMode with #[repr(u8)] IntoPrimitive: u8::from(mode)
AccessMode_into(mode) ==
    CASE mode.kind = "Normal" -> 0
      [] mode.kind = "Cashback" -> 1
      [] mode.kind = "Unknown" -> mode.v

\* felica.rs TryIntoCtx for &BlockListElement into a wbuf of cap bytes
BlockListElement_try_into_ctx(ble, cap) ==
    LET short == ble.block_num <= U8Max
        first == BitOr(IF short THEN \h80 ELSE \h00,
                       BitOr((AccessMode_into(ble.mode) * 16) % 256,
                             ble.service_idx % 16))
    IN  IF cap < 1 THEN [op |-> "err"]
        ELSE IF short
        THEN IF cap < 2 THEN [op |-> "err"]
             ELSE [op |-> "ok", bytes |-> <<first, ble.block_num % 256>>]
        ELSE IF cap < 3 THEN [op |-> "err"]
             ELSE [op |-> "ok",
                   bytes |-> <<first, ble.block_num % 256, ble.block_num \div 256>>]

\* IDm values: the two of the felica.rs tests, all bits clear, all bits set
IdmInputs ==
    {FeIdm, <<\h01, \h01, \h06, \h01, \hCB, \h09, \h57, \h03>>,
     Fill(8, \h00), Fill(8, \hFF)}

\* n: u8 of idm_for_service, the sixteen system numbers and the one above
SystemNumbers == 0..\h10

AccessModes ==
    {[kind |-> "Normal"], [kind |-> "Cashback"]}
        \cup {[kind |-> "Unknown", v |-> v] : v \in {\h02, \h07, \h08, \h0F, \h10, \hFF}}

ServiceIdxs == {\h00, \h01, \h0F, \h10, \hFF}

BlockNums == {\h00, \h01, \hFF, \h100, \h1234, \hFFFF}

WbufCaps == 0..3

\* felica.rs 58-64 idm_for_service, the assert included
idm_for_service_call ==
    /\ fcPc = "ready"
    /\ \E idm0 \in IdmInputs, n \in SystemNumbers :
         /\ fcIn' = [op |-> "idm_for_service", idm0 |-> idm0, n |-> n]
         /\ fcOut' = IF n < \h0F THEN [op |-> "ok", idm |-> idm_for_service(idm0, n)]
                     ELSE [op |-> "panic"]
    /\ fcPc' = "idm"
    /\ UNCHANGED <<bdNum, bdReads, bdNonZero, bdRet>>
    /\ UNCHANGED <<cmdVars, iterVars, statusVars, berVars, atrVars, encVars, pbVars, feVars, dirVars>>

\* felica.rs 646-667 pwrite of a BlockListElement
BlockListElement_write ==
    /\ fcPc = "ready"
    /\ \E mode \in AccessModes, idx \in ServiceIdxs, num \in BlockNums, cap \in WbufCaps :
         \E ble \in {[mode |-> mode, service_idx |-> idx, block_num |-> num]} :
             /\ fcIn' = [op |-> "BlockListElement", ble |-> ble, cap |-> cap]
             /\ fcOut' = BlockListElement_try_into_ctx(ble, cap)
    /\ fcPc' = "ble"
    /\ UNCHANGED <<bdNum, bdReads, bdNonZero, bdRet>>
    /\ UNCHANGED <<cmdVars, iterVars, statusVars, berVars, atrVars, encVars, pbVars, feVars, dirVars>>

\* the response frame the card sent carries status flags other than 00 00
StatusNotZero(ans) ==
    /\ ReadWithoutEncryption_call(ans).kind = "ok"
    /\ Len(ans.bytes) >= 14
    /\ <<ans.bytes[11], ans.bytes[12]>> # <<0, 0>>

\* how the block-dump loop leaves probe_felica_systems
DumpEnds(r) ==
    /\ bdRet' = r
    /\ fcPc' = "stopped"

\* probe_felica.rs 133-156: one turn of `for block_num in 0..` over u16. Taking
\* the last value from the range steps past u16::MAX: a panic with overflow
\* checks, a wrap to 0 without.
probe_felica_systems_read_block ==
    /\ fcPc \in {"ready", "dump"}
    /\ \E ans \in ReadAnswers, checked \in BOOLEAN :
         \E rsp \in {ReadWithoutEncryption_call(ans)} :
             IF bdNum = U16Max /\ checked
             THEN DumpEnds("panic") /\ UNCHANGED <<bdNum, bdReads, bdNonZero>>
             ELSE /\ bdReads' = Min(bdReads + 1, MaxCount)
                  /\ bdNum' = (bdNum + 1) % (U16Max + 1)
                  /\ bdNonZero' = (bdNonZero \/ StatusNotZero(ans))
                  /\ IF rsp.kind # "ok" THEN DumpEnds(rsp.kind)
                     ELSE IF rsp.status # <<0, 0>> THEN DumpEnds("break")
                     ELSE fcPc' = "dump" /\ bdRet' = bdRet
    /\ UNCHANGED <<fcIn, fcOut>>
    /\ UNCHANGED <<cmdVars, iterVars, statusVars, berVars, atrVars, encVars, pbVars, feVars, dirVars>>

-----------------------------------------------------------------------------
(* The EMV directory: emv.rs Directory and FCIIssuerDiscretionaryData, and   *)
(* the older draft app/emv/dir.rs FCIProprietary.  A child is [tag, value];  *)
(* an Option of a byte string is Some(v) or Nothing.                         *)

Some(v) == [some |-> TRUE, v |-> v]

Nothing == [some |-> FALSE]

Done(out) == [kind |-> "ok", out |-> out]

Failed == [kind |-> "err"]

\* value.first() with unwrap_or(&d)
First_or(value, d) == IF Len(value) = 0 THEN d ELSE value[1]

\* value.last() with unwrap_or(&d)
Last_or(value, d) == IF Len(value) = 0 THEN d ELSE value[Len(value)]

\* ber.rs tag_to_u32, for the tags of up to four bytes it does not panic on
tag_to_u32(tag) == BigEndian_read_uint(tag, Len(tag))

\* String::from_utf8 succeeds; exact for byte strings that are ASCII or hold
\* the byte FF
from_utf8_ok(value) == \A i \in 1..Len(value) : value[i] < 128

\* what `for res in ber::iter(data)` sees: the Ok items in order, and how the
\* iteration ends ("none": None; "err": an error item; "panic")
RECURSIVE ber_iter_items(_)
ber_iter_items(data) ==
    Bind(parse_next(data), LAMBDA r :
    IF r.kind = "ok"
    THEN Bind(ber_iter_items(r.rest), LAMBDA t :
              [items |-> <<r.out>> \o t.items, end |-> t.end])
    ELSE IF r.kind = "err" /\ r.code = "Eof" THEN [items |-> <<>>, end |-> "none"]
    ELSE [items |-> <<>>, end |-> r.kind])

\* emv.rs 112-123, the 0x9F0A arm: split_at(2), split_first().unwrap() and
\* split_at(len) each panic when the bytes are not there
RECURSIVE simple_tlv_loop(_, _)
simple_tlv_loop(data, tvs) ==
    IF Len(data) = 0 THEN Done(tvs)
    ELSE IF Len(data) < 2 THEN PPanic
    ELSE IF Len(data) < 3 THEN PPanic
    ELSE IF Len(data) - 3 < data[3] THEN PPanic
    ELSE simple_tlv_loop(Drop(data, 3 + data[3]),
                         Append(tvs, <<data[1] * 256 + data[2],
                                       SubSeq(data, 4, 3 + data[3])>>))

FCIIssuerDiscretionaryData_default ==
    [log_entry |-> Nothing, app_capability_info |-> Nothing,
     app_selection_reg_propr_data |-> Nothing, ds_id |-> Nothing,
     unknown_9f6e |-> Nothing]

\* emv.rs 101-127, the match of FCIIssuerDiscretionaryData::try_from
FCIIssuerDiscretionaryData_entry(slf, tag, value) ==
    IF tag = <<\h9F, \h4D>>
    THEN Done([slf EXCEPT !.log_entry = Some(<<First_or(value, 0), Last_or(value, 0)>>)])
    ELSE IF tag = <<\h9F, \h5D>> /\ Len(value) = 3
    THEN Done([slf EXCEPT !.app_capability_info = Some(value)])
    ELSE IF tag = <<\h9F, \h0A>>
    THEN Bind(simple_tlv_loop(value, <<>>), LAMBDA r :
              IF r.kind # "ok" THEN r
              ELSE Done([slf EXCEPT !.app_selection_reg_propr_data = Some(r.out)]))
    ELSE IF tag = <<\h9F, \h5E>> THEN Done([slf EXCEPT !.ds_id = Some(value)])
    ELSE IF tag = <<\h9F, \h6E>> THEN Done([slf EXCEPT !.unknown_9f6e = Some(value)])
    ELSE Done(slf)

Directory_default ==
    [ef_sfi |-> 0, lang_prefs |-> Nothing, issuer_code_table_idx |-> None,
     fci_issuer_discretionary_data |-> Nothing]

FCIProprietary_default ==
    [sfi_of_directory_ef |-> None, lang_pref |-> Nothing,
     issuer_code_table_idx |-> Nothing, extra |-> {}]

\* app/emv/dir.rs 116-124, the match of FCIProprietary::from_bytes on the tag
\* as an integer; extra is the HashMap as its set of (key, value) pairs
FCIProprietary_entry(v, tag, value) ==
    IF tag_to_u32(tag) = \h88
    THEN Done([v EXCEPT !.sfi_of_directory_ef = First_or(value, None)])
    ELSE IF tag_to_u32(tag) = \h5F2D
    THEN IF from_utf8_ok(value) THEN Done([v EXCEPT !.lang_pref = Some(value)])
         ELSE Failed
    ELSE IF tag_to_u32(tag) = \h9F11
    THEN Done([v EXCEPT !.issuer_code_table_idx = Some(value)])
    ELSE Done([v EXCEPT !.extra = {e \in v.extra : e[1] # tag_to_u32(tag)}
                                      \cup {<<tag_to_u32(tag), value>>}])

\* the body of `for res in ber::iter(data) { let (tag, value) = res?; match .. }`
\* of parser `which` over the items from the i-th on
RECURSIVE tlv_fold(_, _, _, _)
\* emv.rs 42-71 and 91-133, app/emv/dir.rs 111-127: the loop, then Ok(slf)
\* unless the iteration ended in an error item or a panic
tlv_parse(which, data, default) ==
    Bind(ber_iter_items(data), LAMBDA it :
    Bind(tlv_fold(which, it.items, 1, default), LAMBDA r :
    IF r.kind # "ok" THEN r
    ELSE IF it.end = "none" THEN r
    ELSE [kind |-> it.end]))

\* emv.rs 52-66, the match of Directory::try_from
Directory_entry(slf, tag, value) ==
    IF tag = <<\h88>> THEN Done([slf EXCEPT !.ef_sfi = First_or(value, 0)])
    ELSE IF tag = <<\h5F, \h2D>> THEN Done([slf EXCEPT !.lang_prefs = Some(value)])
    ELSE IF tag = <<\h9F, \h11>>
    THEN Done([slf EXCEPT !.issuer_code_table_idx = First_or(value, 0)])
    ELSE IF tag = <<\hBF, \h0C>>
    THEN Bind(tlv_parse("FCIIssuerDiscretionaryData", value,
                        FCIIssuerDiscretionaryData_default), LAMBDA r :
              IF r.kind = "panic" THEN r
              ELSE Done([slf EXCEPT !.fci_issuer_discretionary_data =
                             IF r.kind = "ok" THEN Some(r.out) ELSE Nothing]))
    ELSE Done(slf)

tlv_fold(which, items, i, slf) ==
    IF i > Len(items) THEN Done(slf)
    ELSE Bind(CASE which = "Directory" -> Directory_entry(slf, items[i][1], items[i][2])
                [] which = "FCIIssuerDiscretionaryData" ->
                       FCIIssuerDiscretionaryData_entry(slf, items[i][1], items[i][2])
                [] which = "FCIProprietary" ->
                       FCIProprietary_entry(slf, items[i][1], items[i][2]),
              LAMBDA r : IF r.kind # "ok" THEN r
                         ELSE tlv_fold(which, items, i + 1, r.out))

\* emv.rs 42-71
Directory_try_from(data) == tlv_parse("Directory", data, Directory_default)

\* app/emv/dir.rs 111-127
FCIProprietary_from_bytes(data) == tlv_parse("FCIProprietary", data, FCIProprietary_default)

\* children in one template
MaxKids == 2

\* records the probe reads from the directory EF
MaxDirRecords == 3

\* a child of the template on the wire: tag, one length byte, value
Tlv(tag, value) == tag \o <<Len(value)>> \o value

RECURSIVE Serialize(_)
Serialize(kids) ==
    IF Len(kids) = 0 THEN <<>>
    ELSE Tlv(kids[1][1], kids[1][2]) \o Serialize(Drop(kids, 1))

\* the children a card puts in the template in this model: the SFI (and an
\* empty one), a language preference (and one that is not UTF-8), the code
\* table index, issuer discretionary data whose 0x9F0A holds one whole entry,
\* one cut short in its header (one and two bytes), one whose length byte
\* promises more than follows, one with a log entry instead, and children no
\* draft knows (0x50 twice with different values, 0x9F12)
DirChildren ==
    { <<<<\h88>>, <<\h01>>>>,
      <<<<\h88>>, <<>>>>,
      <<<<\h5F, \h2D>>, <<\h65, \h6E>>>>,
      <<<<\h5F, \h2D>>, <<\hFF>>>>,
      <<<<\h9F, \h11>>, <<\h01>>>>,
      <<<<\hBF, \h0C>>, Tlv(<<\h9F, \h0A>>, <<\h00, \h01, \h02, \hAA, \hBB>>)>>,
      <<<<\hBF, \h0C>>, Tlv(<<\h9F, \h0A>>, <<\h00>>)>>,
      <<<<\hBF, \h0C>>, Tlv(<<\h9F, \h0A>>, <<\h00, \h01>>)>>,
      <<<<\hBF, \h0C>>, Tlv(<<\h9F, \h0A>>, <<\h00, \h01, \h05, \hAA>>)>>,
      <<<<\hBF, \h0C>>, Tlv(<<\h9F, \h4D>>, <<\h0B, \h0A>>)>>,
      <<<<\h50>>, <<\h41>>>>,
      <<<<\h50>>, <<\h42>>>>,
      <<<<\h9F, \h12>>, <<\h43>>>> }

DirInputs == UNION {[1..n -> DirChildren] : n \in 0..MaxKids}

DirDrafts == {"emv", "app_emv_dir"}

\* how the card answers a READ RECORD of the directory EF
DirReadOutcomes == {"Ok", "BadRecord", "RecordNotFound", "OtherError"}

\* emv.rs Directory::select as probe_emv_directory calls it (probe.rs 425):
\* the template's contents go through Directory::try_from, and `?` ends the
\* probe on an error
emv_Directory_select ==
    /\ dirPc = "input" /\ dirVia = "emv"
    /\ dirRes' = Directory_try_from(dirIn)
    /\ dirPc' = IF dirRes'.kind = "ok" THEN "parsed" ELSE "done"
    /\ dirRet' = IF dirRes'.kind = "ok" THEN "none" ELSE dirRes'.kind
    /\ UNCHANGED <<dirVia, dirKids, dirIn, dirNum, dirReads, dirReadSfi>>
    /\ UNCHANGED <<cmdVars, iterVars, statusVars, berVars, atrVars, encVars, pbVars, feVars, fcVars>>

\* app/emv/dir.rs Directory::select: FCI::from_bytes hands the template's
\* contents to FCIProprietary::from_bytes
app_emv_Directory_select ==
    /\ dirPc = "input" /\ dirVia = "app_emv_dir"
    /\ dirRes' = FCIProprietary_from_bytes(dirIn)
    /\ dirPc' = IF dirRes'.kind = "ok" THEN "parsed" ELSE "done"
    /\ dirRet' = IF dirRes'.kind = "ok" THEN "none" ELSE dirRes'.kind
    /\ UNCHANGED <<dirVia, dirKids, dirIn, dirNum, dirReads, dirReadSfi>>
    /\ UNCHANGED <<cmdVars, iterVars, statusVars, berVars, atrVars, encVars, pbVars, feVars, fcVars>>

\* probe.rs 446-492, one turn of `for i in 1..`: READ RECORD with sfi
\* dir.ef_sfi and number i; 6A83 breaks, another error is logged and the loop
\* goes on, and a record that does not parse ends the probe through `?`
probe_emv_directory_read ==
    /\ dirPc = "parsed" /\ dirVia = "emv" /\ dirNum <= MaxDirRecords
    /\ \E o \in DirReadOutcomes :
        /\ dirReads' = dirReads + 1
        /\ dirReadSfi' = dirRes.out.ef_sfi
        /\ dirNum' = dirNum + 1
        /\ dirPc' = IF o \in {"RecordNotFound", "BadRecord"} THEN "done" ELSE "parsed"
        /\ dirRet' = CASE o = "RecordNotFound" -> "ok"
                       [] o = "BadRecord" -> "err"
                       [] OTHER -> dirRet
    /\ UNCHANGED <<dirVia, dirKids, dirIn, dirRes>>
    /\ UNCHANGED <<cmdVars, iterVars, statusVars, berVars, atrVars, encVars, pbVars, feVars, fcVars>>

\* app/emv/dir.rs 33-38 and 150-171, RecordIterator::next: after an error it
\* returns None; record_num fails with "Directory has no SFI" before any
\* command; a missing record gives None, any other error is yielded and
\* terminates
app_emv_RecordIterator_next ==
    /\ dirPc \in {"parsed", "terminated"} /\ dirVia = "app_emv_dir"
    /\ dirNum <= MaxDirRecords
    /\ IF dirPc = "terminated"
       THEN /\ dirPc' = "done"
            /\ UNCHANGED <<dirNum, dirReads, dirReadSfi, dirRet>>
       ELSE IF dirRes.out.sfi_of_directory_ef = None
       THEN /\ dirPc' = "terminated" /\ dirRet' = "ErrNoSFI"
            /\ dirNum' = dirNum + 1
            /\ UNCHANGED <<dirReads, dirReadSfi>>
       ELSE \E o \in DirReadOutcomes :
            /\ dirReads' = dirReads + 1
            /\ dirReadSfi' = dirRes.out.sfi_of_directory_ef
            /\ dirNum' = dirNum + 1
            /\ dirPc' = CASE o = "RecordNotFound" -> "done"
                          [] o = "Ok" -> "parsed"
                          [] OTHER -> "terminated"
            /\ dirRet' = CASE o = "RecordNotFound" -> "ok"
                           [] o = "Ok" -> dirRet
                           [] OTHER -> "err"
    /\ UNCHANGED <<dirVia, dirKids, dirIn, dirRes>>
    /\ UNCHANGED <<cmdVars, iterVars, statusVars, berVars, atrVars, encVars, pbVars, feVars, fcVars>>

-----------------------------------------------------------------------------
(* Parts of the state a specification does not exercise stay as constructed. *)

CmdIdle ==
    /\ layer = "Transport" /\ proto = "T0" /\ grCla = 0 /\ pc = "idle"
    /\ orig = NoReq /\ req = NoReq /\ prev = NoExchange /\ last = NoExchange
    /\ chain = <<>> /\ calls = 0 /\ result = NoResult

IterIdle ==
    /\ itKind = "none" /\ itSfi = 0 /\ itNum = 1 /\ itTerminate = FALSE
    /\ itItem = "none" /\ itReads = 0 /\ itOks = 0 /\ itNotFound = FALSE
    /\ itFailed = FALSE /\ itLastRead = 0 /\ itCalled = FALSE

StatusIdle == stY = 0 /\ stStatus = NoStatus /\ stOut = 0 /\ stPc = "idle"

BerIdle ==
    /\ berTag = <<>> /\ berVal = <<>> /\ berCap = 0 /\ berEndian = "little"
    /\ berBuf = <<>> /\ berIn = <<>>
    /\ berRes = [kind |-> "none"] /\ berPc = "idle" /\ berItems = 0

AtrIdle == atrIn = <<>> /\ atrRes = [kind |-> "none"] /\ atrPc = "idle"

EncIdle ==
    /\ enVia = "none" /\ enCmd = [op |-> "none"] /\ enProto = "T0"
    /\ enWire = <<>> /\ enPc = "idle"

\* probe has not been called: nothing queried, decided, run or returned
ProbeFresh ==
    /\ pbCid = [some |-> FALSE, bytes |-> <<>>] /\ pbAtr = NoAtr /\ pbStd = "none"
    /\ pbRan = {} /\ pbFails = {} /\ pbRet = "none"
    /\ feIdm = <<>> /\ feDone = {} /\ fePmmFailed = FALSE
    /\ feIdx = 0 /\ feFailed = 0 /\ feAbsent = 0 /\ feRet = "none"

ProbeIdle == pbForce = "None" /\ pbPc = "idle" /\ ProbeFresh

NoCall == [op |-> "none"]

FcIdle ==
    /\ fcPc = "idle" /\ fcIn = NoCall /\ fcOut = NoCall
    /\ bdNum = 0 /\ bdReads = 0 /\ bdNonZero = FALSE /\ bdRet = "none"

DirIdle ==
    /\ dirVia = "emv" /\ dirKids = <<>> /\ dirIn = <<>> /\ dirPc = "idle"
    /\ dirRes = NoCall /\ dirNum = 1 /\ dirReads = 0 /\ dirReadSfi = None
    /\ dirRet = "none"

MoreIdle == FcIdle /\ DirIdle

-----------------------------------------------------------------------------
(* Specification of the command layers.                                     *)

Init ==
    /\ layer \in Layers
    /\ proto \in (IF layer = "Card" THEN Protocols ELSE {"T0"})
    /\ grCla \in (IF layer = "Card" THEN Clas ELSE {0})
    /\ pc = "idle"
    /\ orig = NoReq /\ req = NoReq /\ prev = NoExchange /\ last = NoExchange
    /\ chain = <<>> /\ calls = 0 /\ result = NoResult
    /\ IterIdle /\ StatusIdle /\ BerIdle /\ AtrIdle /\ EncIdle /\ ProbeIdle /\ MoreIdle

Next ==
    \/ Begin
    \/ Transport_call_apdu
    \/ Card_exec
    \/ util_call_apdu

Spec == Init /\ [][Next]_vars

\* The program is one synchronous thread: a call in progress takes its next step
FairSpec == Init /\ [][Next]_vars /\ WF_vars(Next)

-----------------------------------------------------------------------------
(* Claims about the command layers (Transport::call_apdu and Card::exec;    *)
(* util::call_apdu where the claim is about every logical call).            *)

OKWord(e) == e.ok /\ e.sw1 = \h90 /\ e.sw2 = \h00

SameCommand(a, b) ==
    /\ a.cla = b.cla /\ a.ins = b.ins /\ a.p1 = b.p1 /\ a.p2 = b.p2
    /\ a.data = b.data

\* the exchange before the last one was answered 6C nn
AfterRetryWithLe ==
    layer \in CommandLayers /\ last.n > 0 /\ prev.ok /\ prev.sw1 = \h6C

\* the exchange before the last one was answered 61 nn
AfterBytesRemaining ==
    layer \in CommandLayers /\ last.n > 0 /\ prev.ok /\ prev.sw1 = \h61

\* the request of the last exchange was written with an Le byte
EncodesLe == layer = "Transport" \/ proto = "T1" \/ Len(last.req.data) = 0

RetryOutcome ==
    OKWord(last) =>
        /\ pc = "done"
        /\ result = Res("ok", "", last.data, St("OK", 0, 0))
        /\ (prev.n = 1 => calls = 2)

\* C1 as stated: after an answer 6C nn the next transport call re-sends the same
\* command with its encoded Le byte equal to nn; if that call answers 90 00 the
\* logical call returns its body with status OK after exactly two transport calls.
C1_RetryEncodesLe ==
    AfterRetryWithLe =>
        /\ SameCommand(last.req, prev.req)
        /\ WireLe(last.wire) = prev.sw2
        /\ RetryOutcome

\* C1 as amended: the re-sent command carries Le = nn on the wire whenever its
\* encoding has an Le byte (APDU::serialize_req always; Protocol::write_req under
\* T=1 or with an empty body); under T=0 with a body Protocol::write_req writes no
\* Le byte and the retry is byte-for-byte the request that was answered 6C nn.
C1_RetryAmended ==
    AfterRetryWithLe =>
        /\ SameCommand(last.req, prev.req)
        /\ last.req.le = prev.sw2
        /\ IF EncodesLe THEN WireLe(last.wire) = prev.sw2
           ELSE WireLe(last.wire) = None /\ last.wire = prev.wire
        /\ RetryOutcome

C1_Witness ==
    /\ AfterRetryWithLe /\ prev.n = 1 /\ prev.sw2 = \h80
    /\ WireLe(last.wire) = \h80
    /\ OKWord(last) /\ last.data = D32
    /\ pc = "done" /\ result.kind = "ok" /\ result.data = D32 /\ calls = 2

\* C2: after an answer 61 nn the next transport call is a GET RESPONSE: INS 0xC0,
\* Le = nn, and the CLA of the original request.
C2_GetResponseKeepsCla ==
    AfterBytesRemaining =>
        /\ last.wire[2] = \hC0
        /\ WireLe(last.wire) = prev.sw2
        /\ last.wire[1] = orig.cla

\* C3: a logical call that went through GET RESPONSE continuations returns the
\* concatenation, in order of receipt, of the data of every response of the chain.
C3_ReturnsConcatenation ==
    (layer \in CommandLayers /\ pc = "done" /\ result.kind = "ok" /\ calls < MaxCalls)
        => result.data = chain

Procedural(st) ==
    \/ st.v \in {"BytesRemaining", "ErrRetryWithLe", "GetResponse", "RetryWithLe"}
    \/ st.v = "APDU" /\ st.a \in {\h61, \h6C}

\* C4: no logical call hands its caller a procedural status (61 nn or 6C nn),
\* in a response or in an error.
C4_NoProceduralStatus == pc = "done" => ~Procedural(result.status)

\* C5: every logical call makes finitely many transport calls and terminates
\* with a response or an error.
C5_Terminates == (pc = "calling") ~> (pc = "done")

\* C13: a card response shorter than two bytes is reported to the caller as
\* an error; of a response of two or more bytes the last two bytes are SW1
\* then SW2 and the bytes before them are the data.
C13_ShortResponseIsError ==
    (last.n > 0 /\ ~last.rx.err) =>
        LET rx == last.rx.bytes
            l == Len(rx)
        IN  IF l < 2 THEN pc = "done" /\ result.kind = "err"
            ELSE /\ last.ok
                 /\ last.sw1 = rx[l - 1] /\ last.sw2 = rx[l]
                 /\ last.data = SubSeq(rx, 1, l - 2)

-----------------------------------------------------------------------------
(* Specification of the record iterators.                                   *)

IterInit ==
    /\ CmdIdle /\ StatusIdle /\ BerIdle /\ AtrIdle /\ EncIdle /\ ProbeIdle /\ MoreIdle
    /\ itKind \in IterKinds
    /\ itSfi \in (IF itKind = "RecordIter" THEN {1} ELSE {None, 1})
    /\ itNum = 1 /\ itTerminate = FALSE
    /\ itItem = "none" /\ itReads = 0 /\ itOks = 0 /\ itNotFound = FALSE
    /\ itFailed = FALSE /\ itLastRead = 0 /\ itCalled = FALSE

IterNext ==
    \/ RecordIterator_next
    \/ DirectoryRecordIterator_next
    \/ RecordIter_next

IterSpec == IterInit /\ [][IterNext]_vars

-----------------------------------------------------------------------------
(* Claims about the record iterators.                                       *)

\* C6: once a READ RECORD of the iterator has been answered 6A 83, that next()
\* returns None and no later next() calls the transport or yields an item: the
\* counts of READ RECORD commands and of Ok items stay what they were (five Ok
\* items and six transport calls when record 6 is the first to answer 6A 83).
C6_StopsAfterRecordNotFound ==
    [][/\ (itNotFound' /\ ~itNotFound) => itItem' = "None"
       /\ itNotFound => /\ ~itCalled' /\ itItem' = "None"
                        /\ itReads' = itReads /\ itOks' = itOks]_iterVars

\* C7: once a READ RECORD of the iterator has failed with an error other than
\* RecordNotFound, that error was the last item: every later next() returns None
\* without calling the transport.
C7_ErrorIsLastItem ==
    [][itFailed => (~itCalled' /\ itItem' = "None")]_iterVars

\* C24: every READ RECORD an iterator issues carries the record number that
\* follows the one of its previous READ RECORD (1 for the first), that number
\* lies in 1..=254, and no next() overflows the record counter.
C24_RecordNumbersInRange ==
    [][/\ itCalled' => (itLastRead' = itLastRead + 1 /\ itLastRead' \in 1..254)
       /\ itItem' # "panic"]_iterVars

-----------------------------------------------------------------------------
(* Specification of the status word round trip: every u16 is an input.      *)

StatusInit ==
    /\ CmdIdle /\ IterIdle /\ BerIdle /\ AtrIdle /\ EncIdle /\ ProbeIdle /\ MoreIdle
    /\ stY \in 0..U16Max
    /\ stStatus = NoStatus /\ stOut = 0 /\ stPc = "input"

StatusNext == from_u16 \/ as_u16

StatusSpec == StatusInit /\ [][StatusNext]_vars

\* C8: for every 16-bit value y in 0..=0xFFFF, classifying y into a Status and
\* encoding that Status back gives y.
C8_StatusRoundTrip == stPc = "done" => stOut = stY

\* the round trip of 0xFFFF, the value the repository's own test loop leaves out
C8_Witness == stPc = "done" /\ stY = U16Max /\ stOut = U16Max /\ stStatus.v = "Unknown"

-----------------------------------------------------------------------------
(* Specification of the BER-TLV codec: a (tag, value) is written and parsed *)
(* back, or a raw input is parsed.                                          *)

BerInit ==
    /\ CmdIdle /\ IterIdle /\ StatusIdle /\ AtrIdle /\ EncIdle /\ ProbeIdle /\ MoreIdle
    /\ berBuf = <<>> /\ berRes = NoParse /\ berItems = 0
    /\ \/ /\ berPc = "tv"
          /\ berTag \in Tags /\ berVal \in Values
          /\ berCap \in Caps /\ berEndian \in Endians
          /\ berIn = <<>>
       \/ /\ berPc = "input"
          /\ berTag = <<>> /\ berVal = <<>> /\ berCap = 0 /\ berEndian = "little"
          /\ berIn \in RawInputs

BerNext == ber_TV_write \/ ber_parse_next \/ ber_take_len \/ ber_Iter_next

BerSpec == BerInit /\ [][BerNext]_vars

-----------------------------------------------------------------------------
(* Claims about the BER-TLV codec.                                          *)

\* the state after TV was written and parse_next was run on the bytes written
RoundTripDone == berPc = "parsed" /\ berTag # <<>>

\* C9: for every tag of 1 to 4 bytes and every value, values of 128 bytes or more
\* included, parse_next of the serialized (tag, value) returns that tag and that
\* value with no input left over.
C9_RoundTrip == RoundTripDone => berRes = POk(<<>>, <<berTag, berVal>>)

\* the state after take_len was run on an input that starts with 0x80
TookIndeterminate == berPc = "took_len" /\ Len(berIn) >= 1 /\ berIn[1] = \h80

\* C10 as stated: take_len on an input whose first byte is 0x80 fails with the
\* error Indeterminate, which is not the TooLarge of more than 8 length bytes.
C10_FailsIndeterminate ==
    TookIndeterminate =>
        berRes.kind = "err" /\ berRes.code = "Indeterminate" /\ berRes.code # "TooLarge"

\* C10 as amended: take_len on an input whose first byte is 0x80 fails, and the
\* error is the same TooLarge that more than 8 length bytes get; it carries the
\* whole input.
C10_FailsTooLarge ==
    /\ TookIndeterminate => berRes = PErr("TooLarge", berIn)
    /\ (berPc = "took_len" /\ Len(berIn) >= 1 /\ berIn[1] > \h88)
          => berRes = PErr("TooLarge", berIn)

C10_Witness ==
    /\ berPc = "took_len" /\ berIn = <<\h80, \hED>>
    /\ berRes = PErr("TooLarge", <<\h80, \hED>>)

\* C11: the BER-TLV iterator returns None only when the remaining input is empty;
\* a non-empty partial record makes it yield an error item.
C11_NoneOnlyOnEmpty ==
    (berPc = "iterating" /\ berRes = [kind |-> "none"]) => berIn = <<>>

\* C25: the iterator yields finitely many items over a finite input: an Ok item
\* strictly shortens the remaining input, None is followed by None only, and
\* a call that follows an error item does not yield an error item from the
\* same remaining input again (the remaining input is all the state the
\* iterator has, so it would then yield that item on every later call, forever).
C25_FinitelyManyItems ==
    [][berPc' = "iterating" =>
          /\ berRes'.kind = "some_ok" => Len(berIn') < Len(berIn)
          /\ (berPc = "iterating" /\ berRes.kind = "none") => berRes'.kind = "none"
          /\ (berPc = "iterating" /\ berRes.kind = "some_err") =>
                 ~(berRes'.kind = "some_err" /\ berIn' = berIn)]_vars

\* the input announces an extended length of 1..=8 length bytes and holds
\* fewer bytes than that after the first
LengthCutShort(d) ==
    /\ Len(d) >= 1 /\ d[1] \in \h81..\h88
    /\ Len(d) - 1 < d[1] - \h80

\* C28: take_len fails with an error when an extended length announces N
\* length bytes (1..=8) and fewer than N bytes remain, and neither it nor
\* parse_next nor the iterator aborts on any input.
C28_ShortLengthIsError ==
    /\ (berPc = "took_len" /\ LengthCutShort(berIn)) => berRes.kind = "err"
    /\ berRes.kind # "panic"

-----------------------------------------------------------------------------
(* Specification of the ATR parser: one ATR is parsed.                      *)

AtrInit ==
    /\ atrIn \in AtrInputs
    /\ atrRes = [kind |-> "none"]
    /\ atrPc = "input"
    /\ CmdIdle /\ IterIdle /\ StatusIdle /\ BerIdle /\ EncIdle /\ ProbeIdle /\ MoreIdle

AtrNext == atr_parse_call

AtrSpec == AtrInit /\ [][AtrNext]_vars

-----------------------------------------------------------------------------
(* Claims about the ATR parser.                                             *)

\* TD3 is present in the input and its high nibble is not zero
Td3RequestsTx4 ==
    /\ Len(atrIn) >= 2
    /\ LET tx == atr_groups(Drop(atrIn, 2), T0_from(atrIn[2]))
       IN  tx.kind = "ok" /\ tx.out[3].td.present /\ tx.out[3].td.txn # 0

\* C12: an ATR whose TD3 requests a fourth interface group is rejected with
\* a parse error returned to the caller, and no ATR makes the parser abort.
C12_Td3RejectedWithError ==
    atrPc = "parsed" =>
        /\ atrRes.kind # "panic"
        /\ Td3RequestsTx4 => atrRes.kind = "err"

\* how many of the bits of mask m below bit j are set
MaskCount(m, j) == Cardinality({i \in 0..(j - 1) : Bit(m, i)})

\* the input byte that bit j of mask m announces in the group starting at
\* index p of the input, None when the bit is clear
GroupByte(p, m, j) == IF Bit(m, j) THEN atrIn[p + MaskCount(m, j)] ELSE None

\* the mask governing the group after the one at p under m: the high nibble
\* of its TD, no bit when that TD is absent
NextMask(p, m) == IF Bit(m, 3) THEN GroupByte(p, m, 3) \div 16 ELSE 0

\* group g holds what the input holds at p under mask m
GroupAsRead(g, p, m) ==
    /\ g.ta = GroupByte(p, m, 0)
    /\ g.tb = GroupByte(p, m, 1)
    /\ g.tc = GroupByte(p, m, 2)
    /\ g.td.present = Bit(m, 3)
    /\ Bit(m, 3) => /\ g.td.txn = GroupByte(p, m, 3) \div 16
                    /\ g.td.protocol = GroupByte(p, m, 3) % 16

-----------------------------------------------------------------------------
(* Specification of the serialization of commands: one command is built and *)
(* written by the encoder of its draft.                                     *)

EncInit ==
    /\ enVia \in EncVias
    /\ enCmd \in EncCommands(enVia)
    /\ enProto \in (IF enVia \in {"iso7816_select", "read_record", "protocol"}
                    THEN Protocols ELSE {"T0"})
    /\ enWire = <<>>
    /\ enPc = "built"
    /\ CmdIdle /\ IterIdle /\ StatusIdle /\ BerIdle /\ AtrIdle /\ ProbeIdle /\ MoreIdle

EncNext ==
    \/ commands_Select_serialize
    \/ iso7816_Select_write
    \/ iso7816_ReadRecord_write
    \/ read_record_ReadRecord_write
    \/ Protocol_write_req_call

EncSpec == EncInit /\ [][EncNext]_vars

-----------------------------------------------------------------------------
(* Claims about the serialization of commands.                              *)

\* C14: SELECT by AID of A0 00 00 00 04 60 00 is written as the twelve bytes
\* 00 A4 04 00 07 A0 00 00 00 04 60 00: P1 is 04, Lc is 07, nothing follows
\* the body.
C14_SelectAidWire ==
    (/\ enPc \in {"written", "failed"}
     /\ enCmd.op = "Select"
     /\ enCmd.file.kind \in {"AID", "ID"}
     /\ enCmd.file.bytes = AidCirrus
     /\ enCmd.occurrence = "First")
        => enWire = <<\h00, \hA4, \h04, \h00, \h07>> \o AidCirrus

EncApdu ==
    IF enVia = "protocol" THEN enCmd.apdu
    ELSE IF enVia = "iso7816_select" THEN iso7816_Select_into(enCmd)
    ELSE read_record_ReadRecord_into(enCmd)

-----------------------------------------------------------------------------
(* Specification of the probe: one run of probe over a reader and a card.   *)

ProbeInit ==
    /\ pbForce \in {"None"} \cup Standards
    /\ pbPc = "reader"
    /\ ProbeFresh
    /\ CmdIdle /\ IterIdle /\ StatusIdle /\ BerIdle /\ AtrIdle /\ EncIdle /\ MoreIdle

ProbeNext ==
    \/ probe_reader
    \/ probe_cid
    \/ probe_atr
    \/ probe_branch
    \/ probe_emv
    \/ probe_felica_pmm
    \/ probe_felica_request_system_code
    \/ probe_felica_systems
    \/ probe_felica_lite_s

ProbeSpec == ProbeInit /\ [][ProbeNext]_vars

\* the ATR that probe_atr parsed carries an Initial-Access entry whose
\* standard is FeliCa
AtrSaysFeliCa ==
    /\ pbAtr.kind = "ok"
    /\ pbAtr.out.historical_bytes.kind = "TLV"
    /\ pbAtr.out.historical_bytes.tlv.initial_access.present
    /\ pbAtr.out.historical_bytes.tlv.initial_access.standard = "FeliCa"

\* C17: a probe that has reached its branch decision runs exactly one of the
\* two flows, the FeliCa flow exactly when the ATR's Historical Bytes hold an
\* Initial-Access entry whose standard is FeliCa and the ISO/EMV flow
\* otherwise; never both, never neither.
C17_ExactlyOneBranchByAtr ==
    pbStd # "none" =>
        /\ Cardinality(pbRan) = 1
        /\ ("felica" \in pbRan) <=> AtrSaysFeliCa

\* C18: when a probe that returned (without aborting on a panic) met a failure
\* in one of its first three steps, it still reached the branch decision and
\* did not return an error.
C18_FirstStepsNeverFail ==
    (pbPc = "done" /\ pbRet # "panic" /\ pbFails # {}) =>
        pbStd # "none" /\ pbRet = "ok"

\* C19: a FeliCa flow that started with a valid IDm and returned (without
\* aborting on a panic) has issued RequestSystemCode and run exactly one of
\* the system walk and the Lite-S fallback, whether or not the PMm query
\* failed.
C19_SystemCodeThenOneWalk ==
    (feIdm # <<>> /\ feRet \notin {"none", "panic"}) =>
        /\ "RequestSystemCode" \in feDone
        /\ ("systems" \in feDone) # ("lite_s" \in feDone)

\* C20: a Lite-S fallback that returned (without aborting on a panic) has
\* attempted a read for each of the 28 catalogue blocks of both services,
\* returned Ok, and shown as absent every block whose read failed.
C20_LiteSToleratesBlockFailure ==
    ("lite_s" \in feDone /\ feRet \notin {"none", "panic"}) =>
        /\ feIdx = LiteSReads
        /\ feRet = "ok"
        /\ feAbsent = feFailed

-----------------------------------------------------------------------------
(* Specification of the FeliCa helpers: one helper call, or one block dump. *)

FelicaInit ==
    /\ fcPc = "ready" /\ fcIn = NoCall /\ fcOut = NoCall
    /\ bdNum = 0 /\ bdReads = 0 /\ bdNonZero = FALSE /\ bdRet = "none"
    /\ CmdIdle /\ IterIdle /\ StatusIdle /\ BerIdle /\ AtrIdle /\ EncIdle /\ ProbeIdle
    /\ DirIdle

FelicaNext ==
    \/ idm_for_service_call
    \/ BlockListElement_write
    \/ probe_felica_systems_read_block

FelicaSpec == FelicaInit /\ [][FelicaNext]_vars

\* C21: for every system number N in 0..=15, idm_for_service returns an IDm
\* whose top nibble is N and whose remaining 60 bits are those of the
\* canonical IDm.
C21_TopNibbleIsSystem ==
    (fcPc = "idm" /\ fcIn.n \in 0..15) =>
        /\ fcOut.op = "ok"
        /\ fcOut.idm[1] \div 16 = fcIn.n
        /\ fcOut.idm[1] % 16 = fcIn.idm0[1] % 16
        /\ \A i \in 2..8 : fcOut.idm[i] = fcIn.idm0[i]

\* C22: the first byte of a serialized BlockListElement has its top bit set
\* exactly when the block number fits in one byte (two bytes in all) and clear
\* otherwise (three bytes in all, block number little-endian), for every
\* access mode; bits 4-6 hold an access mode that fits them and the low four
\* bits a service index of 0..=15.
C22_BlockListElementWire ==
    (fcPc = "ble" /\ fcOut.op = "ok") =>
        LET e == fcIn.ble
            b == fcOut.bytes[1]
        IN  /\ (b \div 128 = 1) <=> (e.block_num <= 255)
            /\ e.block_num <= 255 => fcOut.bytes = <<b, e.block_num>>
            /\ e.block_num > 255 =>
                   fcOut.bytes = <<b, e.block_num % 256, e.block_num \div 256>>
            /\ AccessMode_into(e.mode) < 8 => (b \div 16) % 8 = AccessMode_into(e.mode)
            /\ e.service_idx < 16 => b % 16 = e.service_idx

\* C27: once the card has answered a read of the block dump with a status
\* that is not (0, 0), the loop has stopped: no further read follows.
C27_StopsOnNonZeroStatus ==
    bdNonZero => bdRet # "none"

-----------------------------------------------------------------------------
(* Specification of the EMV directory: one template, parsed by one draft,   *)
(* then the directory EF's records read.                                     *)

DirInit ==
    /\ dirVia \in DirDrafts
    /\ dirKids \in DirInputs
    /\ dirIn = Serialize(dirKids)
    /\ dirPc = "input" /\ dirRes = NoCall
    /\ dirNum = 1 /\ dirReads = 0 /\ dirReadSfi = None /\ dirRet = "none"
    /\ CmdIdle /\ IterIdle /\ StatusIdle /\ BerIdle /\ AtrIdle /\ EncIdle /\ ProbeIdle
    /\ FcIdle

DirNext ==
    \/ emv_Directory_select
    \/ app_emv_Directory_select
    \/ probe_emv_directory_read
    \/ app_emv_RecordIterator_next

DirSpec == DirInit /\ [][DirNext]_vars

\* the tags the parsing draft has an arm for
RecognisedTags ==
    IF dirVia = "emv" THEN {<<\h88>>, <<\h5F, \h2D>>, <<\h9F, \h11>>, <<\hBF, \h0C>>}
    ELSE {<<\h88>>, <<\h5F, \h2D>>, <<\h9F, \h11>>}

\* the extras of the parsed result; emv.rs Directory has no such field
ParsedExtras == IF dirVia = "emv" THEN {} ELSE dirRes.out.extra

\* C23: every child of the FCI Proprietary Template whose tag is not
\* recognised is retained in the parsed result's extras, keyed by its tag as
\* an integer with its value unchanged; no unrecognised child is dropped.
C23_UnknownChildrenKept ==
    (dirPc # "input" /\ dirRes.kind = "ok") =>
        \A i \in 1..Len(dirKids) :
            dirKids[i][1] \notin RecognisedTags =>
                <<tag_to_u32(dirKids[i][1]), dirKids[i][2]>> \in ParsedExtras

\* a simple-TLV stream that ends inside an entry: fewer than three header
\* bytes left, or a length byte larger than the bytes that follow
RECURSIVE CutShort(_)
CutShort(data) ==
    IF Len(data) = 0 THEN FALSE
    ELSE IF Len(data) < 3 THEN TRUE
    ELSE IF data[3] > Len(data) - 3 THEN TRUE
    ELSE CutShort(Drop(data, 3 + data[3]))

\* the child is issuer discretionary data whose 0x9F0A value is cut short
CutShortChild(kid) ==
    /\ kid[1] = <<\hBF, \h0C>>
    /\ Len(kid[2]) >= 3 /\ SubSeq(kid[2], 1, 2) = <<\h9F, \h0A>>
    /\ CutShort(Drop(kid[2], 3))

\* C29: parsing FCI Issuer Discretionary Data whose 0x9F0A value is cut short
\* returns an error or omits the field and never aborts, so the enclosing
\* Directory parse still succeeds with that optional field absent.
C29_CutShortIsTolerated ==
    (/\ dirVia = "emv" /\ dirPc # "input"
     /\ \E i \in 1..Len(dirKids) : CutShortChild(dirKids[i])
     /\ \A i \in 1..Len(dirKids) :
            dirKids[i][1] = <<\hBF, \h0C>> => CutShortChild(dirKids[i])) =>
        /\ dirRes.kind = "ok"
        /\ ~dirRes.out.fci_issuer_discretionary_data.some

\* the template has no child with tag 0x88
NoSfiChild == \A i \in 1..Len(dirKids) : dirKids[i][1] # <<\h88>>

\* no child of the template is cut short or holds text that is not UTF-8
SoundChildren ==
    \A i \in 1..Len(dirKids) :
        /\ ~CutShortChild(dirKids[i])
        /\ dirKids[i][1] = <<\h5F, \h2D>> => from_utf8_ok(dirKids[i][2])

\* C30: when the FCI Proprietary Template carries no SFI (tag 0x88 absent),
\* parsing the directory still succeeds with "no SFI", and no READ RECORD is
\* issued for the directory EF.
C30_NoSfiNoRead ==
    (dirPc # "input" /\ NoSfiChild /\ SoundChildren) =>
        /\ dirRes.kind = "ok"
        /\ dirVia = "app_emv_dir" => dirRes.out.sfi_of_directory_ef = None
        /\ dirReads = 0

====
